---------------------------- MODULE Spec2Model ----------------------------
(***************************************************************************)
(* A model of remiru's debug transport: the JTAG TAP controller            *)
(* (remiru/debug/jtag.py), the JTAG <=> PDI clock-domain-crossing          *)
(* interface (remiru/debug/pdi/interface.py, remiru/cdc.py) and the PDI    *)
(* controller (remiru/debug/pdi/controller.py).                            *)
(*                                                                         *)
(* The design is synchronous hardware: every step of the model is one      *)
(* rising edge of one clock domain ('jtag' = TCK, 'sync' = the core        *)
(* clock).  A step reads the registers and the inputs of that tick,        *)
(* settles the combinational signals and assigns all registers of the      *)
(* domain at once.  Registers are the fields of the records tap, iface     *)
(* and ctrl; multi-bit registers are naturals below 2^width.               *)
(***************************************************************************)
EXTENDS Naturals, Integers, Sequences, FiniteSets, TLC

VARIABLES
    tap,        \* registers of JTAGController (jtag domain)
    host,       \* the JTAG host driving TMS/TDI: the word it is shifting in
    obs,        \* observations of the last TCK tick and of the scan in progress
    iface,      \* registers of PDIInterface and its synchronisers (both domains)
    port,       \* the TAP's PDI port as the interface sees it during this TCK cycle
    core,       \* the PDI controller's outputs as the interface sees them
    clk,        \* which clock ticked last, and how often in a row
    seen,       \* observations of the interface's last fetch and of forwarded requests
    ctrl,       \* registers of PDIController (sync domain)
    drv,        \* the frame the controller's driver holds on dataIn
    cobs,       \* observations of the controller's last tick and of the command in progress
    pulse       \* a PulseSynchroniser on its own, its input and the pulses counted

tapVars == <<tap, host, obs>>
ifaceVars == <<iface, port, core, clk, seen>>
ctrlVars == <<ctrl, drv, cobs>>
vars == <<tap, host, obs, iface, port, core, clk, seen, ctrl, drv, cobs, pulse>>

(***************************************************************************)
(* Bit helpers: Cat(), slices and xor() of torii Signals.                  *)
(***************************************************************************)
RECURSIVE Pow2(_)
Pow2(n) == IF n = 0 THEN 1 ELSE 2 * Pow2(n - 1)

Bit(v, i) == (v \div Pow2(i)) % 2

\* v[lo:hi], a torii slice: bits lo .. hi-1
Slice(v, lo, hi) == (v \div Pow2(lo)) % Pow2(hi - lo)

\* Cat(reg[1:width], tdi): shift right by one, the new bit enters at the top
ShiftIn(reg, width, tdi) == (reg \div 2) + tdi * Pow2(width - 1)

\* A 32-bit register as two 16-bit halves (the checker's integers are 32-bit
\* signed, so a 32-bit unsigned value does not fit one of them)
W32(v) == [hi |-> v \div 65536, lo |-> v % 65536]
Bit32(w, i) == IF i < 16 THEN Bit(w.lo, i) ELSE IF i < 32 THEN Bit(w.hi, i - 16) ELSE 0
ShiftIn32(w, tdi) == [hi |-> ShiftIn(w.hi, 16, tdi), lo |-> ShiftIn(w.lo, 16, w.hi % 2)]
\* w with bit i (clear in w) set to b; bits past the 32nd are dropped
WithBit32(w, i, b) ==
    IF i < 16 THEN [w EXCEPT !.lo = @ + b * Pow2(i)]
    ELSE IF i < 32 THEN [w EXCEPT !.hi = @ + b * Pow2(i - 16)]
    ELSE w
\* The low n bits of w
Low32(w, n) ==
    IF n >= 32 THEN w
    ELSE IF n >= 16 THEN [w EXCEPT !.hi = @ % Pow2(n - 16)]
    ELSE [hi |-> 0, lo |-> w.lo % Pow2(n)]

(***************************************************************************)
(* JTAGController                                                          *)
(***************************************************************************)
InsnIdCode == 3
InsnPDI == 7
InsnBypass == 15

\* jtagIDCode, the constructor's parameter: 0x12345678 in the simulation
JtagIDCode == 305419896

InShift(state) == state \in {"SHIFT-DR", "SHIFT-IR"}
InCapture(state) == state \in {"CAPTURE-DR", "CAPTURE-IR"}
InUpdate(state) == state \in {"UPDATE-DR", "UPDATE-IR"}

TapStates == {"RESET", "IDLE",
    "SELECT-DR", "CAPTURE-DR", "SHIFT-DR", "EXIT1-DR", "PAUSE-DR", "EXIT2-DR", "UPDATE-DR",
    "SELECT-IR", "CAPTURE-IR", "SHIFT-IR", "EXIT1-IR", "PAUSE-IR", "EXIT2-IR", "UPDATE-IR"}

\* m.next of tapFSM on a tick with TMS low; a state that assigns no m.next
\* is kept
TapNextLow(state) ==
    CASE state = "RESET"      -> "IDLE"
      [] state = "IDLE"       -> "IDLE"
      [] state = "SELECT-DR"  -> "CAPTURE-DR"
      [] state = "CAPTURE-DR" -> "SHIFT-DR"
      [] state = "SHIFT-DR"   -> "SHIFT-DR"
      [] state = "EXIT1-DR"   -> "PAUSE-DR"
      [] state = "PAUSE-DR"   -> "PAUSE-DR"
      [] state = "EXIT2-DR"   -> "SHIFT-DR"
      [] state = "UPDATE-DR"  -> "IDLE"
      [] state = "SELECT-IR"  -> "CAPTURE-IR"
      [] state = "CAPTURE-IR" -> "SHIFT-IR"
      [] state = "SHIFT-IR"   -> "SHIFT-IR"
      [] state = "EXIT1-IR"   -> "PAUSE-IR"
      [] state = "PAUSE-IR"   -> "PAUSE-IR"
      [] state = "EXIT2-IR"   -> "SHIFT-IR"
      [] state = "UPDATE-IR"  -> "IDLE"

\* m.next of tapFSM on a tick with TMS high
TapNextHigh(state) ==
    CASE state = "RESET"      -> "RESET"
      [] state = "IDLE"       -> "SELECT-DR"
      [] state = "SELECT-DR"  -> "SELECT-IR"
      [] state = "CAPTURE-DR" -> "EXIT1-DR"
      [] state = "SHIFT-DR"   -> "EXIT1-DR"
      [] state = "EXIT1-DR"   -> "UPDATE-DR"
      [] state = "PAUSE-DR"   -> "EXIT2-DR"
      [] state = "EXIT2-DR"   -> "UPDATE-DR"
      [] state = "UPDATE-DR"  -> "SELECT-DR"
      [] state = "SELECT-IR"  -> "RESET"
      [] state = "CAPTURE-IR" -> "EXIT1-IR"
      [] state = "SHIFT-IR"   -> "EXIT1-IR"
      [] state = "EXIT1-IR"   -> "UPDATE-IR"
      [] state = "PAUSE-IR"   -> "EXIT2-IR"
      [] state = "EXIT2-IR"   -> "UPDATE-IR"
      [] state = "UPDATE-IR"  -> "SELECT-DR"

\* TapNext with Exit2-IR and Exit2-DR waiting in place while TMS is low
TapNextExit2Stays(state, tms) ==
    IF tms = 1 THEN TapNextHigh(state)
    ELSE IF state \in {"EXIT2-DR", "EXIT2-IR"} THEN state
    ELSE TapNextLow(state)

\* TapNext with Update-DR and Update-IR always returning to Run-Test/Idle
TapNextUpdateToIdle(state, tms) ==
    IF InUpdate(state) THEN "IDLE"
    ELSE IF tms = 1 THEN TapNextHigh(state)
    ELSE TapNextLow(state)

\* The next state of tapFSM
TapNext(state, tms) == IF tms = 1 THEN TapNextHigh(state) ELSE TapNextLow(state)

\* The combinational strobes the FSM state drives in this tick
CaptureDR(t, tms) == t.state = "CAPTURE-DR" /\ tms = 0
CaptureIR(t, tms) == t.state = "CAPTURE-IR" /\ tms = 0
UpdateDR(t) == t.state = "UPDATE-DR"
UpdateIR(t) == t.state = "UPDATE-IR"

\* self.pdiFetchResponse: pulsed in the Capture-DR tick of a PDI scan
TapFetchResponse(t, tms) == CaptureDR(t, tms) /\ t.insn = InsnPDI

\* self.pdiHaveRequest: follows the pdiHaveRequest register
TapHaveRequest(t) == t.pdiHaveRequest = 1

\* The registered shiftDR / shiftIR flags, assigned inside the FSM states
ShiftDRNext(t, tms) ==
    CASE t.state = "RESET" /\ tms = 0      -> 0
      [] t.state = "CAPTURE-DR" /\ tms = 0 -> 1
      [] t.state = "SHIFT-DR" /\ tms = 1   -> 0
      [] OTHER                             -> t.shiftDR

ShiftIRNext(t, tms) ==
    CASE t.state = "RESET" /\ tms = 0      -> 0
      [] t.state = "CAPTURE-IR" /\ tms = 0 -> 1
      [] t.state = "SHIFT-IR" /\ tms = 1   -> 0
      [] OTHER                             -> t.shiftIR

\* Which branch of the If/Elif/Elif chain of the IR block is taken
IRBranch(t, tms) ==
    IF CaptureIR(t, tms) THEN "capture"
    ELSE IF t.shiftIR = 1 THEN "shift"
    ELSE IF UpdateIR(t) THEN "update"
    ELSE "none"

\* Which branch of the If/Elif/Elif chain of the DR block is taken
DRBranch(t, tms) ==
    IF CaptureDR(t, tms) THEN "capture"
    ELSE IF t.shiftDR = 1 THEN "shift"
    ELSE IF UpdateDR(t) THEN "update"
    ELSE "none"

InsnShiftRegNext(t, tms, tdi) ==
    CASE IRBranch(t, tms) = "capture" -> t.insn
      [] IRBranch(t, tms) = "shift"   -> ShiftIn(t.insnShiftReg, 4, tdi)
      [] OTHER                        -> t.insnShiftReg

\* insn: loaded with idCode when Test-Logic-Reset is left, and from the IR
\* shift register in Update-IR (the later statement wins in a tick)
InsnNextNoUpdate(t, tms) ==
    IF t.state = "RESET" /\ tms = 0 THEN InsnIdCode ELSE t.insn

InsnNext(t, tms) ==
    IF IRBranch(t, tms) = "update" THEN t.insnShiftReg
    ELSE IF t.state = "RESET" /\ tms = 0 THEN InsnIdCode
    ELSE t.insn

IdCodeNextNoCapture(t, tms, tdi) ==
    IF DRBranch(t, tms) = "shift" /\ t.insn = InsnIdCode THEN ShiftIn32(t.idCode, tdi)
    ELSE t.idCode

IdCodeNext(t, tms, tdi) ==
    CASE DRBranch(t, tms) = "capture" /\ t.insn = InsnIdCode -> W32(JtagIDCode)
      [] DRBranch(t, tms) = "shift" /\ t.insn = InsnIdCode   -> ShiftIn32(t.idCode, tdi)
      [] OTHER                                               -> t.idCode

PdiDataNext(t, tms, tdi, dataOut) ==
    CASE DRBranch(t, tms) = "capture" /\ t.insn = InsnPDI -> dataOut
      [] DRBranch(t, tms) = "shift" /\ t.insn = InsnPDI   -> ShiftIn(t.pdiData, 9, tdi)
      [] OTHER                                            -> t.pdiData

BypassNext(t, tms, tdi) ==
    IF DRBranch(t, tms) = "shift" /\ t.insn = InsnBypass THEN tdi ELSE t.bypass

\* tdo is assigned by the IR block and then by the DR block
TdoNext(t, tms) ==
    CASE DRBranch(t, tms) = "shift" /\ t.insn = InsnIdCode -> Bit32(t.idCode, 0)
      [] DRBranch(t, tms) = "shift" /\ t.insn = InsnPDI    -> Bit(t.pdiData, 0)
      [] DRBranch(t, tms) = "shift" /\ t.insn = InsnBypass -> t.bypass
      [] IRBranch(t, tms) = "shift"                        -> Bit(t.insnShiftReg, 0)
      [] OTHER                                             -> t.tdo

PdiDataInNext(t, tms) ==
    IF DRBranch(t, tms) = "update" /\ t.insn = InsnPDI THEN t.pdiData ELSE t.pdiDataIn

\* The pdiHaveRequest register: set in Update-DR of a PDI scan, cleared by
\* the block that turns it into the one-tick pulse
PdiHaveRequestSticky(t, tms) ==
    IF DRBranch(t, tms) = "update" /\ t.insn = InsnPDI THEN 1 ELSE t.pdiHaveRequest

PdiHaveRequestNext(t, tms) ==
    IF t.pdiHaveRequest = 1 THEN 0
    ELSE IF DRBranch(t, tms) = "update" /\ t.insn = InsnPDI THEN 1
    ELSE t.pdiHaveRequest

\* One rising edge of TCK
TapStep(t, tms, tdi, dataOut) ==
    [ state          |-> TapNext(t.state, tms),
      shiftDR        |-> ShiftDRNext(t, tms),
      shiftIR        |-> ShiftIRNext(t, tms),
      insn           |-> InsnNext(t, tms),
      insnShiftReg   |-> InsnShiftRegNext(t, tms, tdi),
      bypass         |-> BypassNext(t, tms, tdi),
      idCode         |-> IdCodeNext(t, tms, tdi),
      pdiData        |-> PdiDataNext(t, tms, tdi, dataOut),
      tdo            |-> TdoNext(t, tms),
      pdiDataIn      |-> PdiDataInNext(t, tms),
      pdiHaveRequest |-> PdiHaveRequestNext(t, tms) ]

\* Power-up: every Signal resets to 0 and the FSM to its first state
TapInit ==
    [ state |-> "RESET", shiftDR |-> 0, shiftIR |-> 0, insn |-> 0, insnShiftReg |-> 0,
      bypass |-> 0, idCode |-> W32(0), pdiData |-> 0, tdo |-> 0, pdiDataIn |-> 0,
      pdiHaveRequest |-> 0 ]


(***************************************************************************)
(* The JTAG host and the observer.                                         *)
(*                                                                         *)
(* TDI is driven as transfer() of the simulation drives it: the host       *)
(* picks a word when a scan is captured and presents bit k of it on the    *)
(* k-th Shift tick of the scan.  pdiDataOut, the response the PDI          *)
(* interface presents, is free on the tick it is sampled.                  *)
(***************************************************************************)
\* The longest scan the free-running host performs, in Shift ticks
MaxShift == 5

\* What the free-running host shifts in: the PDI and BYPASS instructions
\* into the instruction register, ones into a data register; and the
\* response it is presented: EMPTY
FreeIRWords == {W32(7), W32(15)}
FreeDRWords == {W32(511)}
FreeResponses == {491}

\* What the scripted host shifts in: the three instructions and an
\* unassigned one; a PDI frame of the simulation, the bit pattern of its
\* BYPASS test and 32 ones; and the responses it is presented: EMPTY and a
\* payload
IRWords == {W32(3), W32(7), W32(15), W32(5)}
DRWords == {W32(18), W32(5), [hi |-> 65535, lo |-> 65535]}
Responses == {491, 260}

\* The lengths of the scripted host's scans, in Shift ticks: of the
\* instruction register, and of the BYPASS, PDI and IDCODE registers
IRCycles == {4}
DRCycles == {3, 9, 32}

NoScan == [kind |-> "none", len |-> 0, out |-> W32(0), paused |-> FALSE, insn |-> 0, resp |-> 0]

\* The observer also keeps the state and the TMS value of the last tick, the
\* number of ticks TMS has now been high in a row (counted up to
\* TmsResetTicks) and the state in which that run of ticks began.
\*
\* What an onlooker of the pins records of the scan in progress: the bits
\* seen on TDO after each tick spent in a Shift state, least significant
\* first, whether the scan went through a Pause state, and what the
\* instruction register and pdiDataOut were when it was captured.  The
\* record is dropped on the tick after the scan's Update state.
ScanNext(t, t2, tms, dataOut) ==
    CASE InCapture(t.state) /\ tms = 0 ->
            [kind |-> IF t.state = "CAPTURE-DR" THEN "DR" ELSE "IR",
             len |-> 0, out |-> W32(0), paused |-> FALSE, insn |-> t.insn, resp |-> dataOut]
      [] InCapture(t.state) /\ tms = 1 -> NoScan
      [] InShift(t.state) ->
            [obs.scan EXCEPT !.len = @ + 1, !.out = WithBit32(@, obs.scan.len, t2.tdo)]
      [] t.state \in {"PAUSE-DR", "PAUSE-IR"} -> [obs.scan EXCEPT !.paused = TRUE]
      [] InUpdate(obs.lastState) -> NoScan
      [] OTHER -> obs.scan

\* softReset() of the simulation holds TMS high for this many ticks
TmsResetTicks == 5

ObsNext(t, t2, tms, dataOut) ==
    [ lastState |-> t.state,
      lastTms   |-> tms,
      tmsOnes   |-> IF tms = 0 THEN 0
                    ELSE IF obs.tmsOnes < TmsResetTicks THEN obs.tmsOnes + 1
                    ELSE obs.tmsOnes,
      onesFrom  |-> IF tms = 0 THEN "none"
                    ELSE IF obs.tmsOnes = 0 THEN t.state
                    ELSE obs.onesFrom,
      scan      |-> ScanNext(t, t2, tms, dataOut) ]

ObsInit ==
    [lastState |-> "none", lastTms |-> 0, tmsOnes |-> 0, onesFrom |-> "none", scan |-> NoScan]

\* transfer(): bit k of the word on the k-th Shift tick
HostTdi(t) == IF InShift(t.state) THEN Bit32(host.word, obs.scan.len) ELSE 0

\* The word the free-running host holds after the tick: picked when a scan
\* is captured, forgotten with the observer's record of the scan
HostWords(t, tms) ==
    CASE CaptureIR(t, tms) -> FreeIRWords
      [] CaptureDR(t, tms) -> FreeDRWords
      [] InUpdate(obs.lastState) \/ (InCapture(t.state) /\ tms = 1) -> {W32(0)}
      [] OTHER -> {host.word}

\* TMS is free on every tick, but the host ends a scan after MaxShift bits:
\* it then leaves the Shift state and does not come back from Exit2
HostTms(t) ==
    { tms \in {0, 1} :
        /\ (InShift(t.state) /\ obs.scan.len + 1 >= MaxShift) => tms = 1
        /\ (t.state \in {"EXIT2-DR", "EXIT2-IR"} /\ obs.scan.len >= MaxShift) => tms = 1 }

\* One TCK tick of the TAP on its own, TMS free
TckTick ==
    \E tms \in HostTms(tap) :
      \E dataOut \in (IF CaptureDR(tap, tms) THEN FreeResponses ELSE {0}) :
        \E w \in HostWords(tap, tms) :
          LET t2 == TapStep(tap, tms, HostTdi(tap), dataOut) IN
            /\ tap' = t2
            /\ host' = [host EXCEPT !.word = w]
            /\ obs' = ObsNext(tap, t2, tms, dataOut)
            /\ UNCHANGED <<ifaceVars, ctrlVars, pulse>>

HostInit == [op |-> "idle", pc |-> 0, tms |-> <<>>, word |-> W32(0)]

InitTAP ==
    /\ tap = TapInit
    /\ host = HostInit
    /\ obs = ObsInit


(***************************************************************************)
(* The scripted host: the procedures of the simulation's test benches      *)
(* (softReset, shiftIR, shiftDR, transfer, returnToIdle).  An operation    *)
(* is the sequence of TMS values it drives, one per TCK tick; it starts    *)
(* with the TAP in Run-Test/Idle (softReset: anywhere) and leaves it       *)
(* there.                                                                  *)
(***************************************************************************)
\* softReset(): TMS high for five ticks, then low for one
SoftResetTms == [i \in 1..(TmsResetTicks + 1) |-> IF i <= TmsResetTicks THEN 1 ELSE 0]

\* transfer(cycles = n): TMS low, and high with the last bit
TransferTms(n) == [i \in 1..n |-> IF i = n THEN 1 ELSE 0]

\* shiftIR(); transfer(); returnToIdle()
IRScanTms(n) == <<1, 1, 0, 0>> \o TransferTms(n) \o <<1, 0>>

\* shiftDR(); transfer(); returnToIdle()
DRScanTms(n) == <<1, 0, 0>> \o TransferTms(n) \o <<1, 0>>

\* One TCK tick of the operation in progress
ScriptTick(h, dataOut) ==
    LET tms == h.tms[h.pc + 1]
        t2 == TapStep(tap, tms, IF InShift(tap.state) THEN Bit32(h.word, obs.scan.len) ELSE 0,
                      dataOut)
        last == h.pc + 1 = Len(h.tms)
    IN  /\ tap' = t2
        /\ host' = IF last THEN [HostInit EXCEPT !.word = h.word] ELSE [h EXCEPT !.pc = @ + 1]
        /\ obs' = ObsNext(tap, t2, tms, dataOut)
        /\ UNCHANGED <<ifaceVars, ctrlVars, pulse>>

\* The response sampled in this tick, if it is the Capture-DR tick of a PDI scan
ScriptResponses(h) ==
    IF TapFetchResponse(tap, h.tms[h.pc + 1]) THEN Responses ELSE {0}

\* The host starts softReset() and drives its first tick
HostSoftReset ==
    /\ host.op = "idle"
    /\ ScriptTick([op |-> "reset", pc |-> 0, tms |-> SoftResetTms, word |-> W32(0)], 0)

\* The host starts an instruction register scan and drives its first tick
HostIRScan ==
    /\ host.op = "idle"
    /\ tap.state = "IDLE"
    /\ \E w \in IRWords, n \in IRCycles :
         ScriptTick([op |-> "ir", pc |-> 0, tms |-> IRScanTms(n), word |-> w], 0)

\* The host starts a data register scan and drives its first tick
HostDRScan ==
    /\ host.op = "idle"
    /\ tap.state = "IDLE"
    /\ \E w \in DRWords, n \in DRCycles :
         ScriptTick([op |-> "dr", pc |-> 0, tms |-> DRScanTms(n), word |-> w], 0)

\* The host drives the next tick of its operation
HostContinue ==
    /\ host.op # "idle"
    /\ \E dataOut \in ScriptResponses(host) : ScriptTick(host, dataOut)

NextScan == HostSoftReset \/ HostIRScan \/ HostDRScan \/ HostContinue

(***************************************************************************)
(* PDIInterface and PulseSynchroniser                                      *)
(*                                                                         *)
(* An FFSynchronizer is a chain of two registers in the receiving domain,  *)
(* kept as <<first stage, second stage>>: its output is the second stage.  *)
(* The registers of the 'jtag' domain are assigned by IfaceJtagStep, those *)
(* of the 'sync' domain by IfaceSyncStep; each reads the other domain's    *)
(* registers as they are at its own edge.                                  *)
(***************************************************************************)
PDI_BREAK_BYTE == 443
PDI_DELAY_BYTE == 475
PDI_EMPTY_BYTE == 491

Xor(a, b) == (a + b) % 2

\* Signal.xor() of an 8-bit value: the parity of its bits
Xor8(v) == (Bit(v, 0) + Bit(v, 1) + Bit(v, 2) + Bit(v, 3)
            + Bit(v, 4) + Bit(v, 5) + Bit(v, 6) + Bit(v, 7)) % 2

\* One tick of a two-stage FFSynchronizer sampling the value in
FFSync(chain, in) == <<in, chain[1]>>

\* PulseSynchroniser: the registers on the input side and on the output side
ToggleIn(ps, i) == Xor(ps.toggleInReg, i)
\* o as the level of the synchronised toggle, not its edge
PulseOutLevel(ps) == ps.toggleOut[2]
PulseOut(ps) == Xor(ps.toggleOut[2], ps.toggleOutReg)
PulseInStep(ps, i) == [ps EXCEPT !.toggleInReg = ToggleIn(ps, i)]
PulseOutStep(ps, i) ==
    [ps EXCEPT !.toggleOut = FFSync(ps.toggleOut, ToggleIn(ps, i)),
               !.toggleOutReg = ps.toggleOut[2]]
\* The edges travelling through the synchroniser: each becomes one pulse on o
PulseEdges(ps, i) ==
    Xor(ToggleIn(ps, i), ps.toggleOut[1]) + Xor(ps.toggleOut[1], ps.toggleOut[2])
    + Xor(ps.toggleOut[2], ps.toggleOutReg)
PulseInit == [toggleInReg |-> 0, toggleOut |-> <<0, 0>>, toggleOutReg |-> 0]

\* The synchronised copies the interface reads
AwaitingResponse(i) == i.awaitingResponse[2]
ParityError(i) == i.parityError[2]
HaveResponse(i) == i.haveResponse[2]
JtagResponse(i) == i.jtagResponse[2]
PdiDataIn(i) == i.pdiDataIn[2]

\* The response frame with bit 8 set whatever the byte
PdiResponseBit8Set(dataOut) == dataOut + 256

\* The response frame with the parity bit inverted
PdiResponseOddParity(dataOut) == dataOut + 256 * (1 - Xor8(dataOut))

\* pdiResponse: the controller's byte and its parity bit
PdiResponse(dataOut) == dataOut + 256 * Xor8(dataOut)

\* nextReady = useRequest & jtagHasRequest
NextReady(i, has) == IF i.useRequest = 1 /\ has = 1 THEN 1 ELSE 0

\* The response selection with the If/Elif chain's first two branches
\* swapped: DELAY before BREAK
JtagDataOutDelayFirst(i, needs) ==
    IF needs = 0 THEN 0
    ELSE IF i.busy = 1 THEN PDI_DELAY_BYTE
    ELSE IF ParityError(i) = 1 THEN PDI_BREAK_BYTE
    ELSE IF HaveResponse(i) = 1 THEN JtagResponse(i)
    ELSE PDI_EMPTY_BYTE

\* jtagDataOut, the response presented to the TAP
JtagDataOut(i, needs) ==
    IF needs = 0 THEN 0
    ELSE IF ParityError(i) = 1 THEN PDI_BREAK_BYTE
    ELSE IF i.busy = 1 THEN PDI_DELAY_BYTE
    ELSE IF HaveResponse(i) = 1 THEN JtagResponse(i)
    ELSE PDI_EMPTY_BYTE

\* responseAck raised by every fetch, whatever it is answered with
ResponseAckAnyFetch(i, needs) == IF needs = 1 THEN 1 ELSE 0

\* responseAck: raised with the payload, and only then
ResponseAck(i, needs) ==
    IF needs = 1 /\ ParityError(i) = 0 /\ i.busy = 0 /\ HaveResponse(i) = 1 THEN 1 ELSE 0

\* The controller-side outputs of the two pulse synchronisers
PdiDoneAck(i) == PulseOut(i.responseAckSync)
PdiNextReady(i) == PulseOut(i.nextReadySync)

\* The busy latch with the Elif taken before the If: a ready response or a
\* fall of the busy shadow wins over a request forwarded in the same cycle
BusyNextClearFirst(i, has) ==
    IF HaveResponse(i) = 1 \/ (i.awaitingReg = 1 /\ AwaitingResponse(i) = 0) THEN 0
    ELSE IF NextReady(i, has) = 1 THEN 1
    ELSE i.busy

BusyNext(i, has) ==
    IF NextReady(i, has) = 1 THEN 1
    ELSE IF HaveResponse(i) = 1 \/ (i.awaitingReg = 1 /\ AwaitingResponse(i) = 0) THEN 0
    ELSE i.busy

UseRequestNext(i, needs) == IF needs = 1 THEN 1 - AwaitingResponse(i) ELSE i.useRequest

\* One TCK edge: needs/has are the TAP's pdiFetchResponse/pdiHaveRequest of
\* the cycle that ends, c the controller's output registers
IfaceJtagStep(i, needs, has, c) ==
    [i EXCEPT !.busy = BusyNext(i, has),
              !.awaitingReg = AwaitingResponse(i),
              !.useRequest = UseRequestNext(i, needs),
              !.awaitingResponse = FFSync(i.awaitingResponse, c.busy),
              !.parityError = FFSync(i.parityError, c.parityError),
              !.haveResponse = FFSync(i.haveResponse, c.done),
              !.jtagResponse = FFSync(i.jtagResponse, PdiResponse(c.dataOut)),
              !.responseAckSync = PulseInStep(i.responseAckSync, ResponseAck(i, needs)),
              !.nextReadySync = PulseInStep(i.nextReadySync, NextReady(i, has))]

\* One edge of the core clock
IfaceSyncStep(i, needs, has, jtagDataIn) ==
    [i EXCEPT !.pdiDataIn = FFSync(i.pdiDataIn, jtagDataIn),
              !.responseAckSync = PulseOutStep(i.responseAckSync, ResponseAck(i, needs)),
              !.nextReadySync = PulseOutStep(i.nextReadySync, NextReady(i, has))]

IfaceInit ==
    [ useRequest |-> 0, awaitingReg |-> 0, busy |-> 0,
      awaitingResponse |-> <<0, 0>>, parityError |-> <<0, 0>>, haveResponse |-> <<0, 0>>,
      jtagResponse |-> <<0, 0>>, pdiDataIn |-> <<0, 0>>,
      responseAckSync |-> PulseInit, nextReadySync |-> PulseInit ]

(***************************************************************************)
(* The interface's surroundings.                                           *)
(*                                                                         *)
(* The TAP's PDI port: pdiFetchResponse is high for the one cycle the TAP  *)
(* spends in Capture-DR (with pdi the instruction and TMS low), and        *)
(* pdiHaveRequest for the one cycle after Update-DR, which the TAP reaches *)
(* no sooner than three cycles after Capture-DR (Shift, Exit1, Update);    *)
(* pdiDataIn changes with Update-DR.  A scan that leaves Capture-DR with   *)
(* TMS high raises no fetch.  The cycle after Update-DR is Run-Test/Idle   *)
(* or Select-DR-Scan, so the next Capture-DR may follow at once.           *)
(*                                                                         *)
(* The controller's side: as the controller's pdiFSM and the test bench's  *)
(* domainSync drive it.  A byte is taken in IDLE on nextReady; busy rises  *)
(* and parityError is recomputed one tick later (PARITY-CHECK); the byte   *)
(* is then worked on for any number of ticks, which may raise done with a  *)
(* byte to send, and busy falls at the end of it or later in IDLE.         *)
(*                                                                         *)
(* The two clocks are unrelated but of comparable speed: the test benches  *)
(* run the core at 25 MHz against a TCK of 10 MHz, and at 12 MHz against   *)
(* a TCK of 20 MHz.                                                        *)
(***************************************************************************)
\* The most core-clock edges within one TCK period, and the most TCK edges
\* within one core-clock period
MaxSyncRun == 3
MaxTckRun == 2

ClkNext(c, domain) == [last |-> domain, run |-> IF c.last = domain THEN c.run + 1 ELSE 1]
ClkAllows(c, domain) ==
    c.last # domain \/ c.run < (IF domain = "jtag" THEN MaxTckRun ELSE MaxSyncRun)
ClkInit == [last |-> "none", run |-> 0]

\* Request frames: LDCS r0 with its parity bit, and a frame of wrong parity
PortData == {384, 256}
\* Bytes the controller answers with
CoreData == {4, 7}
\* Cycles from Capture-DR to the cycle after Update-DR
ScanCycles == 3

PortNeeds(p) == IF p.phase = "capture" THEN 1 ELSE 0
PortHas(p) == IF p.phase = "request" THEN 1 ELSE 0

\* What the port may show in the next TCK cycle
PortNext(p) ==
    CASE p.phase \in {"idle", "request"} ->
            {[p EXCEPT !.phase = "idle", !.n = 0], [p EXCEPT !.phase = "capture", !.n = 0],
             [p EXCEPT !.phase = "scan", !.n = 1]}
      [] p.phase = "capture" -> {[p EXCEPT !.phase = "scan", !.n = 1]}
      [] p.phase = "scan" /\ p.n < ScanCycles -> {[p EXCEPT !.n = @ + 1]}
      [] OTHER -> {p} \cup {[phase |-> "request", n |-> 0, dataIn |-> d] : d \in PortData}

PortInit == [phase |-> "idle", n |-> 0, dataIn |-> 0]

\* The controller's done register: doneAck clears it, a completed write sets it
DoneNext(c, doneAck, writeComplete) ==
    IF doneAck = 1 THEN 0 ELSE IF writeComplete THEN 1 ELSE c.done

\* What the controller's outputs may be after a core-clock edge
CoreNext(c, nextReady, doneAck, dataIn) ==
    CASE c.fsm = "IDLE" ->
            { [c EXCEPT !.fsm = IF nextReady = 1 THEN "PARITY-CHECK" ELSE "IDLE",
                        !.busy = b,
                        !.done = DoneNext(c, doneAck, FALSE)] : b \in {c.busy, 0} }
      [] c.fsm = "PARITY-CHECK" ->
            { [c EXCEPT !.fsm = "WORK",
                        !.parityError = IF Xor8(dataIn % 256) # Bit(dataIn, 8) THEN 1 ELSE 0,
                        !.busy = 1,
                        !.done = DoneNext(c, doneAck, FALSE)] }
      [] c.fsm = "WORK" /\ c.parityError = 1 ->
            { [c EXCEPT !.fsm = "IDLE", !.busy = 0, !.done = DoneNext(c, doneAck, FALSE)] }
      [] OTHER ->
            { [c EXCEPT !.done = DoneNext(c, doneAck, FALSE)] }
            \cup { [c EXCEPT !.fsm = "IDLE", !.busy = b,
                             !.done = DoneNext(c, doneAck, FALSE)] : b \in {0, 1} }
            \cup { [c EXCEPT !.fsm = "IDLE", !.dataOut = d,
                             !.done = DoneNext(c, doneAck, TRUE)] : d \in CoreData }

CoreInit == [fsm |-> "IDLE", busy |-> 0, parityError |-> 0, done |-> 0, dataOut |-> 0]

\* The observer: the busy shadow as it was at the last fetch, the requests
\* forwarded but not yet announced to the controller, the payload fetches not
\* yet acknowledged to the controller, whether the last
\* request forwarded had a wrong parity bit and no fetch has followed it,
\* and whether the scan in progress began with a fetch answered EMPTY with
\* nothing pending and the controller idle (the composed system only)
MaxInFlight == 3
SeenInit ==
    [fetched |-> FALSE, shadow |-> 0, inFlight |-> 0, acks |-> 0, bad |-> FALSE, idlePoll |-> FALSE]

\* One TCK edge of the interface
IfaceTck ==
    /\ ClkAllows(clk, "jtag")
    /\ \E p2 \in PortNext(port) :
         LET i2 == IfaceJtagStep(iface, PortNeeds(port), PortHas(port), core) IN
           /\ iface' = i2
           /\ port' = p2
           /\ seen' = [seen EXCEPT
                         !.fetched = @ \/ PortNeeds(port) = 1,
                         !.shadow = IF PortNeeds(port) = 1 THEN AwaitingResponse(iface) ELSE @,
                         !.inFlight = IF @ + NextReady(i2, PortHas(p2)) > MaxInFlight THEN @
                                      ELSE @ + NextReady(i2, PortHas(p2)),
                         !.acks = IF @ + ResponseAck(i2, PortNeeds(p2)) > MaxInFlight THEN @
                                  ELSE @ + ResponseAck(i2, PortNeeds(p2))]
    /\ clk' = ClkNext(clk, "jtag")
    /\ UNCHANGED <<core, tapVars, ctrlVars, pulse>>

\* One edge of the core clock: the interface's sync registers and the controller
IfaceSync ==
    /\ ClkAllows(clk, "sync")
    /\ iface' = IfaceSyncStep(iface, PortNeeds(port), PortHas(port), port.dataIn)
    /\ core' \in CoreNext(core, PdiNextReady(iface), PdiDoneAck(iface), PdiDataIn(iface))
    /\ seen' = [seen EXCEPT !.inFlight = IF PdiNextReady(iface) = 1 /\ @ > 0 THEN @ - 1 ELSE @,
                             !.acks = IF PdiDoneAck(iface) = 1 /\ @ > 0 THEN @ - 1 ELSE @]
    /\ clk' = ClkNext(clk, "sync")
    /\ UNCHANGED <<port, tapVars, ctrlVars, pulse>>

NextIface == IfaceTck \/ IfaceSync

InitIface ==
    /\ iface = IfaceInit
    /\ port = PortInit
    /\ core = CoreInit
    /\ clk = ClkInit
    /\ seen = SeenInit

(***************************************************************************)
(* PDIController                                                           *)
(*                                                                         *)
(* The registers are the fields of ctrl: fsm and insn are the states of    *)
(* pdiFSM and insnFSM.  The 32-bit registers repCount and repeatData are   *)
(* kept as their four bytes, least significant first.                      *)
(***************************************************************************)
PDIOpcodes ==
    [ LDS |-> 0, LD |-> 1, STS |-> 2, ST |-> 3, LDCS |-> 4, REPEAT |-> 5, STCS |-> 6, KEY |-> 7,
      IDLE |-> 15 ]

Zero32 == <<0, 0, 0, 0>>

\* repCount - 1 in 32 bits
Dec32(b) ==
    IF b[1] > 0 THEN <<b[1] - 1, b[2], b[3], b[4]>>
    ELSE IF b[2] > 0 THEN <<255, b[2] - 1, b[3], b[4]>>
    ELSE IF b[3] > 0 THEN <<255, 255, b[3] - 1, b[4]>>
    ELSE IF b[4] > 0 THEN <<255, 255, 255, b[4] - 1>>
    ELSE <<255, 255, 255, 255>>

\* sizeA = args[2:4] + 1 and sizeB = args[0:2] + 1, three bits each
SizeA(args) == (Slice(args, 2, 4) + 1) % 8
SizeB(args) == (Slice(args, 0, 2) + 1) % 8

\* DecodeCounts with the counters one bit too narrow for a count of eight
DecodeCountsNarrow(opcode, args) ==
    CASE opcode = PDIOpcodes.LDS    -> <<SizeA(args) % 8, SizeB(args) % 8>>
      [] opcode = PDIOpcodes.LD     -> <<0, SizeB(args) % 8>>
      [] opcode = PDIOpcodes.STS    -> <<(SizeA(args) + SizeB(args)) % 8, 0>>
      [] opcode = PDIOpcodes.ST     -> <<SizeB(args) % 8, 0>>
      [] opcode = PDIOpcodes.LDCS   -> <<0, 1>>
      [] opcode = PDIOpcodes.STCS   -> <<1, 0>>
      [] opcode = PDIOpcodes.REPEAT -> <<SizeB(args) % 8, 0>>
      [] opcode = PDIOpcodes.KEY    -> <<8 % 8, 0>>
      [] OTHER                      -> <<>>

\* insnFSM DECODE: <<readCount, writeCount>> as the Switch(opcode) assigns
\* them to the 4-bit counters; <<>> where it assigns neither
DecodeCounts(opcode, args) ==
    CASE opcode = PDIOpcodes.LDS    -> <<SizeA(args) % 16, SizeB(args) % 16>>
      [] opcode = PDIOpcodes.LD     -> <<0, SizeB(args) % 16>>
      [] opcode = PDIOpcodes.STS    -> <<(SizeA(args) + SizeB(args)) % 16, 0>>
      [] opcode = PDIOpcodes.ST     -> <<SizeB(args) % 16, 0>>
      [] opcode = PDIOpcodes.LDCS   -> <<0, 1>>
      [] opcode = PDIOpcodes.STCS   -> <<1, 0>>
      [] opcode = PDIOpcodes.REPEAT -> <<SizeB(args) % 16, 0>>
      [] opcode = PDIOpcodes.KEY    -> <<8, 0>>
      [] OTHER                      -> <<>>

\* insnFSM DECODE, with every opcode but REPEAT clearing the repeat counter
RepCountClearsAllButRepeat(opcode) == opcode # PDIOpcodes.REPEAT

\* insnFSM DECODE: the cases of the Switch(opcode) that assign repCount.eq(0)
RepCountClears(opcode) == opcode \in {PDIOpcodes.IDLE, PDIOpcodes.KEY}

\* insnFSM DECODE: m.next
DecodeNext(opcode) ==
    CASE opcode \in {PDIOpcodes.LDS, PDIOpcodes.LD, PDIOpcodes.STS, PDIOpcodes.ST,
                     PDIOpcodes.LDCS, PDIOpcodes.STCS} -> "HANDLE-REPEAT"
      [] opcode = PDIOpcodes.REPEAT -> "CAPTURE-REPEAT"
      [] opcode \in {PDIOpcodes.KEY, PDIOpcodes.IDLE} -> "IDLE"
      [] OTHER -> "DECODE"

\* UPDATE-REPEAT with the bytes of repeatData taken as they lie
RepCountLoadAsShifted(rd, args) ==
    CASE Slice(args, 0, 2) = 0 -> <<rd[1], 0, 0, 0>>
      [] Slice(args, 0, 2) = 1 -> <<rd[1], rd[2], 0, 0>>
      [] Slice(args, 0, 2) = 2 -> <<rd[1], rd[2], rd[3], 0>>
      [] OTHER                 -> <<rd[1], rd[2], rd[3], rd[4]>>

\* UPDATE-REPEAT: repCount from the low bytes of repeatData, order reversed
RepCountLoad(rd, args) ==
    CASE Slice(args, 0, 2) = 0 -> <<rd[1], 0, 0, 0>>
      [] Slice(args, 0, 2) = 1 -> <<rd[2], rd[1], 0, 0>>
      [] Slice(args, 0, 2) = 2 -> <<rd[3], rd[2], rd[1], 0>>
      [] OTHER                 -> <<rd[4], rd[3], rd[2], rd[1]>>

\* The combinational strobes
UpdateCounts(c) ==
    \/ c.fsm = "DECODE-INSN"
    \/ c.fsm = "UPDATE-STATE" /\ c.writeCount = 0 /\ c.readCount = 0 /\ c.repCount # Zero32
UpdateRepeat(c) == c.fsm = "HANDLE-READ" /\ c.opcode = PDIOpcodes.REPEAT
UpdateComplete(c) == c.insn = "IDLE" /\ c.updateWasOngoing = 1
WriteComplete(c) == c.opcode = PDIOpcodes.LDCS /\ c.fsm = "HANDLE-WRITE"

\* HANDLE-REPEAT decrementing whether or not the command is new
RepeatDecrementsAlways(c) == c.repCount # Zero32

\* HANDLE-REPEAT: (repCount != 0) & ~newCommand
RepeatDecrements(c) == c.repCount # Zero32 /\ c.newCommand = 0

\* pdiRegs[args]: an Array index past the end selects the last element
RegIndex(args) == IF args < 5 THEN args + 1 ELSE 5

\* The register file with STCS never storing
PdiRegsNextStale(c) == c.pdiRegs

\* The register file with every byte of the read phase stored, whatever the opcode
PdiRegsNextAnyOpcode(c) ==
    IF c.fsm = "HANDLE-READ"
    THEN [c.pdiRegs EXCEPT ![RegIndex(c.args)] = c.data]
    ELSE c.pdiRegs

\* STCS & handleRead: pdiRegs[args] <= data
PdiRegsNext(c) ==
    IF c.opcode = PDIOpcodes.STCS /\ c.fsm = "HANDLE-READ"
    THEN [c.pdiRegs EXCEPT ![RegIndex(c.args)] = c.data]
    ELSE c.pdiRegs

\* pdiFSM with DISPATCH-BYTE not looking at parityError
PdiFsmNextNoAbort(c, nextReady) ==
    CASE c.fsm = "RESET"         -> "IDLE"
      [] c.fsm = "IDLE"          -> IF nextReady = 1 THEN "PARITY-CHECK" ELSE "IDLE"
      [] c.fsm = "PARITY-CHECK"  -> "DISPATCH-BYTE"
      [] c.fsm = "DISPATCH-BYTE" ->
            IF c.opcode = PDIOpcodes.IDLE THEN "DECODE-INSN"
            ELSE IF c.readCount # 0 THEN "HANDLE-READ"
            ELSE "HANDLE-WRITE"
      [] c.fsm = "DECODE-INSN"   -> "IDLE"
      [] c.fsm = "HANDLE-READ"   -> "UPDATE-STATE"
      [] c.fsm = "HANDLE-WRITE"  -> IF WriteComplete(c) THEN "UPDATE-STATE" ELSE "HANDLE-WRITE"
      [] c.fsm = "UPDATE-STATE"  -> "IDLE"

\* pdiFSM with DISPATCH-BYTE sending a byte to HANDLE-WRITE while bytes are
\* still to be read
PdiFsmNextWriteFirst(c, nextReady) ==
    CASE c.fsm = "RESET"         -> "IDLE"
      [] c.fsm = "IDLE"          -> IF nextReady = 1 THEN "PARITY-CHECK" ELSE "IDLE"
      [] c.fsm = "PARITY-CHECK"  -> "DISPATCH-BYTE"
      [] c.fsm = "DISPATCH-BYTE" ->
            IF c.parityError = 1 THEN "IDLE"
            ELSE IF c.opcode = PDIOpcodes.IDLE THEN "DECODE-INSN"
            ELSE IF c.readCount = 0 THEN "HANDLE-READ"
            ELSE "HANDLE-WRITE"
      [] c.fsm = "DECODE-INSN"   -> "IDLE"
      [] c.fsm = "HANDLE-READ"   -> "UPDATE-STATE"
      [] c.fsm = "HANDLE-WRITE"  -> IF WriteComplete(c) THEN "UPDATE-STATE" ELSE "HANDLE-WRITE"
      [] c.fsm = "UPDATE-STATE"  -> "IDLE"

\* pdiFSM with DISPATCH-BYTE sending every byte of a command to HANDLE-READ,
\* whatever readCount
PdiFsmNextReadAlways(c, nextReady) ==
    CASE c.fsm = "RESET"         -> "IDLE"
      [] c.fsm = "IDLE"          -> IF nextReady = 1 THEN "PARITY-CHECK" ELSE "IDLE"
      [] c.fsm = "PARITY-CHECK"  -> "DISPATCH-BYTE"
      [] c.fsm = "DISPATCH-BYTE" ->
            IF c.parityError = 1 THEN "IDLE"
            ELSE IF c.opcode = PDIOpcodes.IDLE THEN "DECODE-INSN"
            ELSE "HANDLE-READ"
      [] c.fsm = "DECODE-INSN"   -> "IDLE"
      [] c.fsm = "HANDLE-READ"   -> "UPDATE-STATE"
      [] c.fsm = "HANDLE-WRITE"  -> IF WriteComplete(c) THEN "UPDATE-STATE" ELSE "HANDLE-WRITE"
      [] c.fsm = "UPDATE-STATE"  -> "IDLE"

\* m.next of pdiFSM
PdiFsmNext(c, nextReady) ==
    CASE c.fsm = "RESET"         -> "IDLE"
      [] c.fsm = "IDLE"          -> IF nextReady = 1 THEN "PARITY-CHECK" ELSE "IDLE"
      [] c.fsm = "PARITY-CHECK"  -> "DISPATCH-BYTE"
      [] c.fsm = "DISPATCH-BYTE" ->
            IF c.parityError = 1 THEN "IDLE"
            ELSE IF c.opcode = PDIOpcodes.IDLE THEN "DECODE-INSN"
            ELSE IF c.readCount # 0 THEN "HANDLE-READ"
            ELSE "HANDLE-WRITE"
      [] c.fsm = "DECODE-INSN"   -> "IDLE"
      [] c.fsm = "HANDLE-READ"   -> "UPDATE-STATE"
      [] c.fsm = "HANDLE-WRITE"  -> IF WriteComplete(c) THEN "UPDATE-STATE" ELSE "HANDLE-WRITE"
      [] c.fsm = "UPDATE-STATE"  -> "IDLE"

\* m.next of insnFSM
InsnFsmNext(c) ==
    CASE c.insn = "IDLE"           -> IF UpdateCounts(c) THEN "DECODE" ELSE "IDLE"
      [] c.insn = "DECODE"         -> DecodeNext(c.opcode)
      [] c.insn = "HANDLE-REPEAT"  -> "IDLE"
      [] c.insn = "CAPTURE-REPEAT" ->
            IF UpdateRepeat(c) /\ c.readCount = 1 THEN "UPDATE-REPEAT" ELSE "CAPTURE-REPEAT"
      [] c.insn = "UPDATE-REPEAT"  -> "IDLE"

\* Both counters exhausted, as UPDATE-STATE tests it
CountsDone(c) == c.writeCount = 0 /\ c.readCount = 0

\* One edge of the core clock.  Where pdiFSM and insnFSM assign the same
\* register, the statement later in the source wins: insnFSM's
CtrlStep(c, nextReady, dataIn, doneAck) ==
    LET decoded == IF c.insn = "DECODE" THEN DecodeCounts(c.opcode, c.args) ELSE <<>>
    IN
    [ fsm  |-> PdiFsmNext(c, nextReady),
      insn |-> InsnFsmNext(c),
      data |-> IF c.fsm = "DISPATCH-BYTE" /\ c.parityError = 0 THEN dataIn % 256 ELSE c.data,
      opcode |->
          CASE c.fsm = "RESET" -> PDIOpcodes.IDLE
            [] c.fsm = "DECODE-INSN" -> Slice(c.data, 5, 8)
            [] c.fsm = "UPDATE-STATE" /\ CountsDone(c) /\ c.repCount = Zero32 -> PDIOpcodes.IDLE
            [] OTHER -> c.opcode,
      args |-> IF c.fsm = "DECODE-INSN" THEN Slice(c.data, 0, 4) ELSE c.args,
      newCommand |->
          CASE c.fsm = "DECODE-INSN" -> 1
            [] c.fsm = "UPDATE-STATE" /\ CountsDone(c) /\ c.repCount # Zero32 -> 0
            [] OTHER -> c.newCommand,
      readCount |->
          CASE decoded # <<>> -> decoded[1]
            [] decoded = <<>> /\ c.fsm = "RESET" -> 0
            [] decoded = <<>> /\ c.fsm = "HANDLE-READ" -> (c.readCount + 15) % 16
            [] OTHER -> c.readCount,
      writeCount |->
          CASE decoded # <<>> -> decoded[2]
            [] decoded = <<>> /\ c.fsm = "RESET" -> 0
            [] decoded = <<>> /\ c.fsm = "HANDLE-WRITE" /\ WriteComplete(c) ->
                   (c.writeCount + 15) % 16
            [] OTHER -> c.writeCount,
      repCount |->
          IF c.insn = "DECODE" /\ RepCountClears(c.opcode) THEN Zero32
          ELSE IF c.insn = "HANDLE-REPEAT" /\ RepeatDecrements(c) THEN Dec32(c.repCount)
          ELSE IF c.insn = "UPDATE-REPEAT" THEN RepCountLoad(c.repeatData, c.args)
          ELSE IF c.fsm = "RESET" THEN Zero32
          ELSE c.repCount,
      repeatData |->
          IF c.insn = "CAPTURE-REPEAT" /\ UpdateRepeat(c)
          THEN <<c.data, c.repeatData[1], c.repeatData[2], c.repeatData[3]>>
          ELSE c.repeatData,
      updateWasOngoing |-> IF c.insn # "IDLE" THEN 1 ELSE 0,
      dataOut |-> IF WriteComplete(c) THEN c.pdiRegs[RegIndex(c.args)] ELSE c.dataOut,
      pdiRegs |-> PdiRegsNext(c),
      busy |->
          CASE c.fsm = "RESET" -> 0
            [] c.fsm = "IDLE" /\ UpdateComplete(c) -> 0
            [] c.fsm = "PARITY-CHECK" -> 1
            [] c.fsm = "DISPATCH-BYTE" /\ c.parityError = 1 -> 0
            [] c.fsm = "UPDATE-STATE" /\ ~(CountsDone(c) /\ c.repCount # Zero32) -> 0
            [] OTHER -> c.busy,
      parityError |->
          CASE c.fsm = "RESET" -> 0
            [] c.fsm = "PARITY-CHECK" -> IF Xor8(dataIn % 256) # Bit(dataIn, 8) THEN 1 ELSE 0
            [] OTHER -> c.parityError,
      done |-> IF doneAck = 1 THEN 0 ELSE IF WriteComplete(c) THEN 1 ELSE c.done ]

\* Power-up: pdiFSM in its first state, every Signal 0
\* The controller between commands: both state machines idle, no opcode, no
\* bytes owed either way, neither busy nor done nor parityError
CtrlIdle(c) ==
    /\ c.fsm = "IDLE" /\ c.insn = "IDLE" /\ c.opcode = PDIOpcodes.IDLE
    /\ c.readCount = 0 /\ c.writeCount = 0
    /\ c.busy = 0 /\ c.done = 0 /\ c.parityError = 0

CtrlInit ==
    [ fsm |-> "RESET", insn |-> "IDLE", data |-> 0, opcode |-> 0, args |-> 0, newCommand |-> 0,
      readCount |-> 0, writeCount |-> 0, repCount |-> Zero32, repeatData |-> Zero32,
      updateWasOngoing |-> 0, dataOut |-> 0, pdiRegs |-> <<0, 0, 0, 0, 0>>, busy |-> 0,
      parityError |-> 0, done |-> 0 ]

(***************************************************************************)
(* The controller's driver: the host's bytes as the interface hands them   *)
(* over.  dataIn is held from one nextReady pulse to the next, and a pulse *)
(* comes only while pdiFSM waits in IDLE.  The host follows the protocol:  *)
(* it sends a command byte when none is in progress and payload bytes      *)
(* otherwise, each with its parity bit, or a frame of wrong parity.        *)
(***************************************************************************)
\* The most repeats the host asks for before it runs a command
MaxRepeat == 2

CmdBytes == {op * 32 + a : op \in 0..7, a \in 0..15}
KeyBytes == {PDIOpcodes.KEY * 32}
Frame(b) == b + 256 * Xor8(b)
BadFrame == 256

\* The commands of a host that exercises the repeat counter: REPEAT with
\* one to four count bytes, and one command of every kind but STCS
RepeatCmds ==
    {PDIOpcodes.REPEAT * 32 + a : a \in 0..3} \cup
    {op * 32 : op \in {PDIOpcodes.LDS, PDIOpcodes.LD, PDIOpcodes.STS, PDIOpcodes.ST,
                       PDIOpcodes.LDCS, PDIOpcodes.KEY}}

\* The commands of a host that exercises the registers: a one-byte REPEAT,
\* and LDCS and STCS of the first register
RegisterCmds == {op * 32 : op \in {PDIOpcodes.REPEAT, PDIOpcodes.LDCS, PDIOpcodes.STCS}}

\* What a host sends: every command byte with payload bytes of 0, or the
\* repeat commands with payload bytes of 0, 1 and MaxRepeat, or the register
\* commands with payload bytes of 1 and MaxRepeat, or LDCS and STCS of one
\* of the other registers (the STCS with the unused bit 4 of the command
\* byte clear or set) with payload bytes of 1 and 255
Repertoires ==
    { [cmds |-> CmdBytes, data |-> {0}],
      [cmds |-> RepeatCmds, data |-> {0, 1, MaxRepeat}],
      [cmds |-> RegisterCmds, data |-> {1, MaxRepeat}] }
    \cup { [cmds |-> {PDIOpcodes.LDCS * 32 + r, PDIOpcodes.STCS * 32 + r,
                       PDIOpcodes.STCS * 32 + 16 + r},
             data |-> {1, 255}] : r \in 1..4 }

\* The host takes up a repertoire with its first byte and keeps to it
DriverRepertoires(d) ==
    IF d.cmds = {} THEN Repertoires ELSE {[cmds |-> d.cmds, data |-> d.data]}

\* The host runs a command only under a repeat count of at most MaxRepeat:
\* over a larger one it sends KEY, which clears the counter
DriverFrames(c, r) ==
    IF c.opcode # PDIOpcodes.IDLE THEN {Frame(b) : b \in r.data} \cup {BadFrame}
    ELSE IF c.repCount[2] = 0 /\ c.repCount[3] = 0 /\ c.repCount[4] = 0
            /\ c.repCount[1] <= MaxRepeat
         THEN {Frame(b) : b \in r.cmds} \cup {BadFrame}
    ELSE {Frame(b) : b \in KeyBytes}

\* The observer: the states of the tick before, the payload of the REPEAT
\* in progress, and for the command in progress its opcode, the repeat
\* counter it was decoded under and the data phases it has completed;
\* whether doneAck was high in the tick before; and the register and byte
\* of the last STCS, while only LDCS commands have followed it
CobsNext(c, doneAck) ==
    [ lastFsm  |-> c.fsm,
      lastInsn |-> c.insn,
      acked    |-> doneAck,
      stored   |-> IF c.fsm = "HANDLE-READ" /\ c.opcode = PDIOpcodes.STCS
                   THEN <<c.args, c.data>>
                   ELSE IF c.fsm = "DECODE-INSN" /\ Slice(c.data, 5, 8) # PDIOpcodes.LDCS
                   THEN <<>>
                   ELSE cobs.stored,
      payload  |-> IF c.fsm = "DECODE-INSN" THEN <<>>
                   ELSE IF c.fsm = "HANDLE-READ" /\ c.opcode = PDIOpcodes.REPEAT
                   THEN Append(cobs.payload, c.data)
                   ELSE cobs.payload,
      cmd      |-> IF c.fsm = "DECODE-INSN" THEN Slice(c.data, 5, 8) ELSE cobs.cmd,
      count    |-> IF c.fsm = "DECODE-INSN" THEN c.repCount ELSE cobs.count,
      passes   |-> IF c.fsm = "DECODE-INSN" THEN 0
                   ELSE IF c.fsm = "UPDATE-STATE" /\ CountsDone(c) THEN cobs.passes + 1
                   ELSE cobs.passes ]

CobsInit ==
    [ lastFsm |-> "none", lastInsn |-> "none", acked |-> 0, stored |-> <<>>, payload |-> <<>>,
      cmd |-> PDIOpcodes.IDLE, count |-> Zero32, passes |-> 0 ]

\* One edge of the core clock with no byte handed over
CtrlTick ==
    /\ \E ack \in (IF ctrl.done = 1 THEN {0, 1} ELSE {0}) :
         /\ ctrl' = CtrlStep(ctrl, 0, drv.dataIn, ack)
         /\ cobs' = CobsNext(ctrl, ack)
    /\ UNCHANGED <<drv, tapVars, ifaceVars, pulse>>

\* One edge of the core clock in which the driver pulses nextReady
CtrlByte ==
    /\ ctrl.fsm = "IDLE"
    /\ \E r \in DriverRepertoires(drv) :
         \E f \in DriverFrames(ctrl, r) :
           drv' = [dataIn |-> f, cmds |-> r.cmds, data |-> r.data]
    /\ \E ack \in (IF ctrl.done = 1 THEN {0, 1} ELSE {0}) :
         /\ ctrl' = CtrlStep(ctrl, 1, drv.dataIn, ack)
         /\ cobs' = CobsNext(ctrl, ack)
    /\ UNCHANGED <<tapVars, ifaceVars, pulse>>

NextCtrl == CtrlTick \/ CtrlByte

InitCtrl ==
    /\ ctrl = CtrlInit
    /\ drv = [dataIn |-> 0, cmds |-> {}, data |-> {}]
    /\ cobs = CobsInit

(***************************************************************************)
(* The composed system: the TAP's PDI port, PDIInterface and PDIController *)
(* wired as DebugController wires them, under two unrelated clocks.        *)
(***************************************************************************)
\* One TCK edge: the interface's jtag registers sample the controller
SysTck ==
    /\ ClkAllows(clk, "jtag")
    /\ \E p2 \in PortNext(port) :
         LET i2 == IfaceJtagStep(iface, PortNeeds(port), PortHas(port), ctrl) IN
           /\ iface' = i2
           /\ port' = p2
           /\ seen' = [seen EXCEPT
                         !.fetched = @ \/ PortNeeds(port) = 1,
                         !.shadow = IF PortNeeds(port) = 1 THEN AwaitingResponse(iface) ELSE @,
                         !.inFlight = IF @ + NextReady(i2, PortHas(p2)) > MaxInFlight THEN @
                                      ELSE @ + NextReady(i2, PortHas(p2)),
                         !.acks = IF @ + ResponseAck(i2, PortNeeds(p2)) > MaxInFlight THEN @
                                  ELSE @ + ResponseAck(i2, PortNeeds(p2)),
                         !.bad = IF NextReady(iface, PortHas(port)) = 1
                                 THEN Xor8(port.dataIn % 256) # Bit(port.dataIn, 8)
                                 ELSE IF PortNeeds(port) = 1 THEN FALSE ELSE @,
                         !.idlePoll = IF PortHas(port) = 1 THEN FALSE
                                      ELSE IF PortNeeds(port) = 0 THEN @
                                      ELSE /\ JtagDataOut(iface, 1) = PDI_EMPTY_BYTE
                                           /\ seen.inFlight = 0 /\ seen.acks = 0
                                           /\ CtrlIdle(ctrl)]
    /\ clk' = ClkNext(clk, "jtag")
    /\ UNCHANGED <<core, tapVars, ctrlVars, pulse>>

\* One edge of the core clock: the interface's sync registers and the
\* controller, which takes nextReady, dataIn and doneAck from the interface
SysSync ==
    /\ ClkAllows(clk, "sync")
    /\ iface' = IfaceSyncStep(iface, PortNeeds(port), PortHas(port), port.dataIn)
    /\ ctrl' = CtrlStep(ctrl, PdiNextReady(iface), PdiDataIn(iface), PdiDoneAck(iface))
    /\ cobs' = CobsNext(ctrl, PdiDoneAck(iface))
    /\ seen' = [seen EXCEPT !.inFlight = IF PdiNextReady(iface) = 1 /\ @ > 0 THEN @ - 1 ELSE @,
                             !.acks = IF PdiDoneAck(iface) = 1 /\ @ > 0 THEN @ - 1 ELSE @]
    /\ clk' = ClkNext(clk, "sync")
    /\ UNCHANGED <<port, core, drv, tapVars, pulse>>

NextSys == SysTck \/ SysSync

(***************************************************************************)
(* PulseSynchroniser on its own, between an input clock and an output      *)
(* clock that ticks at least once between any two input ticks.  i holds    *)
(* for one input cycle; sent counts the input cycles with i asserted, got  *)
(* the output ticks with o asserted.                                       *)
(***************************************************************************)
\* The input pulses of one run
MaxPulses == 10

\* One tick of the input clock: toggleInReg takes toggleIn, and i its next value
PulseInTick ==
    /\ pulse.sampled
    /\ \E i \in (IF pulse.sent < MaxPulses THEN {0, 1} ELSE {0}) :
         pulse' = [pulse EXCEPT !.ps = PulseInStep(pulse.ps, pulse.i),
                                !.i = i,
                                !.sent = @ + i,
                                !.sampled = FALSE]
    /\ UNCHANGED <<tapVars, ifaceVars, ctrlVars>>

\* One tick of the output clock: the synchroniser samples toggleIn, and
\* toggleOutReg takes toggleOut
PulseOutTick ==
    /\ pulse' = [pulse EXCEPT !.ps = PulseOutStep(pulse.ps, pulse.i),
                              !.got = @ + PulseOut(pulse.ps),
                              !.sampled = TRUE]
    /\ UNCHANGED <<tapVars, ifaceVars, ctrlVars>>

NextPulse == PulseInTick \/ PulseOutTick

InitPulse == pulse = [ps |-> PulseInit, i |-> 0, sent |-> 0, got |-> 0, sampled |-> TRUE]

(***************************************************************************)
(* The interface's response path on its own, as its test bench runs it:    *)
(* pdiDataOut and pdiDone are inputs of the interface, the bench holds a   *)
(* byte on pdiDataOut, raises pdiDone when it likes and drops it on        *)
(* pdiDoneAck; the TAP's port scans as before.  Any byte of pdiDataOut's   *)
(* eight bits may be the one held.                                         *)
(***************************************************************************)
\* Width of pdiDataOut and of the controller's dataOut
DataWidth == 8

\* One TCK edge of the interface; the bench's outputs do not change, and
\* every scan sends the frame 0x180
RespTck ==
    /\ ClkAllows(clk, "jtag")
    /\ \E p2 \in {q \in PortNext(port) : q.phase = "request" => q.dataIn = Frame(PDIOpcodes.LDCS * 32)} :
         /\ iface' = IfaceJtagStep(iface, PortNeeds(port), PortHas(port), core)
         /\ port' = p2
    /\ clk' = ClkNext(clk, "jtag")
    /\ UNCHANGED <<core, seen, tapVars, ctrlVars, pulse>>

\* One edge of the core clock: pdiDoneAck drops pdiDone, else the bench may raise it
RespSync ==
    /\ ClkAllows(clk, "sync")
    /\ iface' = IfaceSyncStep(iface, PortNeeds(port), PortHas(port), port.dataIn)
    /\ \E w \in BOOLEAN : core' = [core EXCEPT !.done = DoneNext(core, PdiDoneAck(iface), w)]
    /\ clk' = ClkNext(clk, "sync")
    /\ UNCHANGED <<port, seen, tapVars, ctrlVars, pulse>>

NextResp == RespTck \/ RespSync

InitResp ==
    /\ InitTAP /\ InitCtrl /\ InitPulse
    /\ iface = IfaceInit
    /\ port = PortInit
    /\ clk = ClkInit
    /\ seen = SeenInit
    /\ \E d \in 0 .. Pow2(DataWidth) - 1 : core = [CoreInit EXCEPT !.dataOut = d]

(***************************************************************************)
(* The composed system under a host that runs an exchange as the test      *)
(* bench's pdiTransfer() does: every poll is a full scan, Capture-DR to    *)
(* Update-DR, sending the next frame of the exchange, and the last frame   *)
(* again in every poll after it.  host holds the exchange, the number of   *)
(* frames sent (counted up to one past the exchange's length)              *)
(* and three observations: the answers of the last three polls; whether a  *)
(* request has been forwarded and the interface has since seen neither a   *)
(* ready response nor the busy shadow fall; and whether a poll has been    *)
(* answered with the payload since the controller last set done.           *)
(***************************************************************************)
\* The exchanges: STCS of 0x04 to r0 and LDCS of r0; REPEAT with one count
\* byte of 1; and LDCS of r0 followed by frames of wrong parity
Exchanges ==
    { <<Frame(PDIOpcodes.STCS * 32), Frame(4), Frame(PDIOpcodes.LDCS * 32), Frame(0)>>,
      <<Frame(PDIOpcodes.REPEAT * 32), Frame(1)>>,
      <<Frame(PDIOpcodes.LDCS * 32), BadFrame>> }

\* The frame the next poll sends
ExchangeFrame(h) == h.frames[IF h.pc < Len(h.frames) THEN h.pc + 1 ELSE Len(h.frames)]

\* pdiTransfer(): what the port may show in the next TCK cycle
TransferNext(p, frame) ==
    CASE p.phase \in {"idle", "request"} ->
            {[p EXCEPT !.phase = "idle", !.n = 0], [p EXCEPT !.phase = "capture", !.n = 0]}
      [] p.phase = "capture" -> {[p EXCEPT !.phase = "scan", !.n = 1]}
      [] p.phase = "scan" /\ p.n < ScanCycles -> {[p EXCEPT !.n = @ + 1]}
      [] OTHER -> {p, [phase |-> "request", n |-> 0, dataIn |-> frame]}

\* One TCK edge of the composed system under the exchange
ExchangeTck ==
    /\ ClkAllows(clk, "jtag")
    /\ \E p2 \in TransferNext(port, ExchangeFrame(host)) :
         /\ iface' = IfaceJtagStep(iface, PortNeeds(port), PortHas(port), ctrl)
         /\ port' = p2
         /\ host' = [host EXCEPT
                       !.pc = IF p2.phase = "request" /\ @ <= Len(host.frames) THEN @ + 1 ELSE @,
                       !.answers = IF PortNeeds(port) = 0 THEN @
                                   ELSE <<@[2], @[3], JtagDataOut(iface, 1)>>,
                       !.waiting = IF NextReady(iface, PortHas(port)) = 1 THEN TRUE
                                   ELSE IF \/ HaveResponse(iface) = 1
                                           \/ (iface.awaitingReg = 1 /\ AwaitingResponse(iface) = 0)
                                        THEN FALSE
                                   ELSE @,
                       !.served = @ \/ ResponseAck(iface, PortNeeds(port)) = 1]
    /\ clk' = ClkNext(clk, "jtag")
    /\ UNCHANGED <<tap, obs, core, seen, ctrlVars, pulse>>

\* One edge of the core clock of the composed system under the exchange
ExchangeSync ==
    /\ ClkAllows(clk, "sync")
    /\ iface' = IfaceSyncStep(iface, PortNeeds(port), PortHas(port), port.dataIn)
    /\ ctrl' = CtrlStep(ctrl, PdiNextReady(iface), PdiDataIn(iface), PdiDoneAck(iface))
    /\ cobs' = CobsNext(ctrl, PdiDoneAck(iface))
    /\ host' = [host EXCEPT
                  !.served = IF WriteComplete(ctrl) /\ PdiDoneAck(iface) = 0 THEN FALSE ELSE @]
    /\ clk' = ClkNext(clk, "sync")
    /\ UNCHANGED <<tap, obs, port, core, seen, drv, pulse>>

NextExchange == ExchangeTck \/ ExchangeSync

InitExchange ==
    /\ InitIface /\ InitCtrl /\ InitPulse
    /\ tap = TapInit
    /\ obs = ObsInit
    /\ \E f \in Exchanges :
         host = [frames |-> f, pc |-> 0, answers |-> <<0, 0, 0>>,
                 waiting |-> FALSE, served |-> FALSE]

(***************************************************************************)
(* Specifications: every one starts from power-up of the whole design and  *)
(* runs one part of it against its environment.                            *)
(***************************************************************************)
Init == InitTAP /\ InitIface /\ InitCtrl /\ InitPulse

\* The TAP under a host that drives TMS freely
SpecTAP == Init /\ [][TckTick]_vars

\* The TAP under the scans of the simulation's test bench
SpecScan == Init /\ [][NextScan]_vars

\* The interface between the TAP's PDI port and the controller's handshake
SpecIface == Init /\ [][NextIface]_vars

\* The controller under a driver that hands it the host's bytes
SpecCtrl == Init /\ [][NextCtrl]_vars

\* The interface and the controller together under the TAP's PDI port
SpecSys == Init /\ [][NextSys]_vars

\* The pulse synchroniser with an output clock that keeps ticking
SpecPulse == Init /\ [][NextPulse]_vars /\ WF_vars(PulseOutTick)

\* The interface's response path, for every byte the controller may hold
SpecResp == InitResp /\ [][NextResp]_vars

\* The controller under its driver, with a core clock that keeps ticking
SpecCtrlLive == Init /\ [][NextCtrl]_vars /\ WF_vars(CtrlTick)

\* The composed system under an exchange, with both clocks ticking for ever
SpecExchange ==
    InitExchange /\ [][NextExchange]_vars /\ WF_vars(ExchangeTck) /\ WF_vars(ExchangeSync)


(***************************************************************************)
(* Properties of the TAP controller                                        *)
(***************************************************************************)
\* The state diagram of IEEE 1149.1: for each state, where TMS = 0 and where
\* TMS = 1 lead
Ieee1149 ==
    [s \in TapStates |->
        CASE s = "RESET"      -> <<"IDLE", "RESET">>
          [] s = "IDLE"       -> <<"IDLE", "SELECT-DR">>
          [] s = "SELECT-DR"  -> <<"CAPTURE-DR", "SELECT-IR">>
          [] s = "SELECT-IR"  -> <<"CAPTURE-IR", "RESET">>
          [] s = "CAPTURE-DR" -> <<"SHIFT-DR", "EXIT1-DR">>
          [] s = "CAPTURE-IR" -> <<"SHIFT-IR", "EXIT1-IR">>
          [] s = "SHIFT-DR"   -> <<"SHIFT-DR", "EXIT1-DR">>
          [] s = "SHIFT-IR"   -> <<"SHIFT-IR", "EXIT1-IR">>
          [] s = "EXIT1-DR"   -> <<"PAUSE-DR", "UPDATE-DR">>
          [] s = "EXIT1-IR"   -> <<"PAUSE-IR", "UPDATE-IR">>
          [] s = "PAUSE-DR"   -> <<"PAUSE-DR", "EXIT2-DR">>
          [] s = "PAUSE-IR"   -> <<"PAUSE-IR", "EXIT2-IR">>
          [] s = "EXIT2-DR"   -> <<"SHIFT-DR", "UPDATE-DR">>
          [] s = "EXIT2-IR"   -> <<"SHIFT-IR", "UPDATE-IR">>
          [] s = "UPDATE-DR"  -> <<"IDLE", "SELECT-DR">>
          [] s = "UPDATE-IR"  -> <<"IDLE", "SELECT-DR">>]

\* C1: after every TCK tick the TAP is in the state the IEEE 1149.1 diagram
\* gives for the state it was in and the TMS value of the tick, whatever the
\* registers, TDI and pdiDataOut were.
C1_TapFollowsIeee1149 ==
    obs.lastState # "none" => tap.state = Ieee1149[obs.lastState][obs.lastTms + 1]

\* A tick in Exit2-IR with TMS low has led back to Shift-IR
C1_Witness ==
    obs.lastState = "EXIT2-IR" /\ obs.lastTms = 0 /\ tap.state = "SHIFT-IR"

\* C2: the TAP powers up in Test-Logic-Reset, and after five or more ticks
\* in a row with TMS high it is in Test-Logic-Reset, whatever state the run
\* of ticks began in.
C2_FiveOnesReset ==
    /\ obs.lastState = "none" => tap.state = "RESET"
    /\ obs.tmsOnes >= TmsResetTicks => tap.state = "RESET"

\* Five ticks with TMS high that began in Shift-IR, the state farthest from
\* Test-Logic-Reset
C2_Witness ==
    obs.tmsOnes = TmsResetTicks /\ obs.onesFrom = "SHIFT-IR" /\ tap.state = "RESET"

C4_IRScanExchanges ==
    (obs.lastState = "UPDATE-IR" /\ obs.scan.kind = "IR" /\ obs.scan.len = 4
        /\ ~obs.scan.paused)
      => /\ obs.scan.out = W32(obs.scan.insn)
         /\ tap.insn = Low32(host.word, 4).lo

\* A scan that loaded BYPASS read back PDI, which the scan before it loaded
C4_Witness ==
    /\ obs.lastState = "UPDATE-IR" /\ obs.scan.kind = "IR" /\ obs.scan.len = 4
    /\ obs.scan.insn = InsnPDI /\ obs.scan.out = W32(InsnPDI)
    /\ tap.insn = InsnBypass

\* C5: after the Update-DR of a DR scan of nine Shift-DR ticks with the
\* instruction register selecting PDI, the bits seen on TDO are the response
\* presented on pdiDataOut when the scan was captured and pdiDataIn holds
\* the nine bits shifted in; and the request pulse is up exactly in the tick
\* after an Update-DR tick taken with the instruction register selecting PDI.
C5_PDIScanExchanges ==
    /\ (obs.lastState = "UPDATE-DR" /\ obs.scan.kind = "DR" /\ obs.scan.insn = InsnPDI
          /\ obs.scan.len = 9 /\ ~obs.scan.paused)
        => /\ obs.scan.out = W32(obs.scan.resp)
           /\ tap.pdiDataIn = Low32(host.word, 9).lo
    /\ TapHaveRequest(tap) <=> (obs.lastState = "UPDATE-DR" /\ tap.insn = InsnPDI)

\* The request pulse is up after a scan that read a payload and sent 0x012
C5_Witness ==
    /\ obs.lastState = "UPDATE-DR" /\ obs.scan.insn = InsnPDI /\ obs.scan.len = 9
    /\ obs.scan.resp = 260 /\ obs.scan.out = W32(260)
    /\ tap.pdiDataIn = 18 /\ TapHaveRequest(tap)


C7_RequestForwardedIffNotBusy ==
    PortHas(port) = 1 =>
      /\ AwaitingResponse(iface) = 1 => NextReady(iface, PortHas(port)) = 0
      /\ (AwaitingResponse(iface) = 0 /\ seen.fetched) => NextReady(iface, PortHas(port)) = 1

\* A request forwarded while the controller is at work on the one before
\* and its busy flag, and the shadow of it, are high
C7_Witness ==
    /\ PortHas(port) = 1
    /\ AwaitingResponse(iface) = 1 /\ core.busy = 1 /\ core.fsm = "WORK"
    /\ NextReady(iface, PortHas(port)) = 1

\* What the interface does with a request: it is forwarded exactly if a
\* fetch has happened and the shadow was low at the last one
IfaceForwardsAsSampled ==
    PortHas(port) = 1 =>
      (NextReady(iface, PortHas(port)) = 1 <=> (seen.fetched /\ seen.shadow = 0))

\* Every forwarded request becomes one nextReady pulse in the core domain,
\* and no pulse arrives without one: the requests forwarded and not yet
\* announced are the edges travelling through nextReadySync
IfaceOneEventPerRequest ==
    /\ seen.inFlight = PulseEdges(iface.nextReadySync, NextReady(iface, PortHas(port)))
    /\ seen.inFlight < MaxInFlight

(***************************************************************************)
(* Properties of the PDI controller                                        *)
(***************************************************************************)
\* C8: for every opcode and every 4-bit argument field, with
\* sizeA = args[3:2] + 1 and sizeB = args[1:0] + 1, the counters the
\* instruction FSM has loaded when it leaves DECODE are (readCount,
\* writeCount) = LDS (sizeA, sizeB); LD (0, sizeB); STS (sizeA + sizeB, 0);
\* ST (sizeB, 0); LDCS (0, 1); STCS (1, 0); REPEAT (sizeB, 0); KEY (8, 0),
\* with no truncation in the 4-bit counters (STS reaches readCount 8).
C8_DecodeLoadsCounters ==
    cobs.lastInsn = "DECODE" =>
      LET sizeA == (ctrl.args \div 4) + 1
          sizeB == (ctrl.args % 4) + 1
          op == ctrl.opcode
      IN /\ op \in 0..7
         /\ <<ctrl.readCount, ctrl.writeCount>> =
              ( CASE op = PDIOpcodes.LDS -> <<sizeA, sizeB>>
                  [] op = PDIOpcodes.LD -> <<0, sizeB>>
                  [] op = PDIOpcodes.STS -> <<sizeA + sizeB, 0>>
                  [] op = PDIOpcodes.ST -> <<sizeB, 0>>
                  [] op = PDIOpcodes.LDCS -> <<0, 1>>
                  [] op = PDIOpcodes.STCS -> <<1, 0>>
                  [] op = PDIOpcodes.REPEAT -> <<sizeB, 0>>
                  [] op = PDIOpcodes.KEY -> <<8, 0>> )

\* STS with sizeA = sizeB = 4 has just been decoded: readCount is 8
C8_Witness ==
    /\ cobs.lastInsn = "DECODE"
    /\ ctrl.opcode = PDIOpcodes.STS
    /\ ctrl.args = 15
    /\ ctrl.readCount = 8
    /\ ctrl.writeCount = 0

\* C9 (as the code has it): after a REPEAT whose sizeB is k, the k payload
\* bytes b1..bk received in that order load the repeat counter with b1 as
\* the LEAST significant byte and bk as the most significant of the k, the
\* upper bytes zero: byte i of the counter, counted from the low end, is bi.
C9_RepeatCountFirstByteLowest ==
    cobs.lastInsn = "UPDATE-REPEAT" =>
      LET k == Len(cobs.payload) IN
        /\ k = (ctrl.args % 4) + 1
        /\ ctrl.repCount = [i \in 1..4 |-> IF i <= k THEN cobs.payload[i] ELSE 0]

\* C9 as the specification states it: b1 is the most significant byte and
\* bk the least significant (counter = b1*256^(k-1) + ... + bk), so that
\* 0x01 then 0x02 gives 0x0102
C9_RepeatCountFirstByteHighest ==
    cobs.lastInsn = "UPDATE-REPEAT" =>
      LET k == Len(cobs.payload) IN
        /\ k = (ctrl.args % 4) + 1
        /\ ctrl.repCount = [i \in 1..4 |-> IF i <= k THEN cobs.payload[k + 1 - i] ELSE 0]

\* REPEAT with sizeB = 2 and payload 0x01 then 0x02 has loaded the counter:
\* its low byte is 0x01 and the next 0x02, the value 0x0201
C9_Witness ==
    /\ cobs.lastInsn = "UPDATE-REPEAT"
    /\ ctrl.opcode = PDIOpcodes.IDLE
    /\ cobs.cmd = PDIOpcodes.REPEAT
    /\ cobs.payload = <<1, 2>>
    /\ ctrl.repCount = <<1, 2, 0, 0>>

\* The opcodes whose decode passes through HANDLE-REPEAT, that is the
\* commands the repeat counter applies to: all but REPEAT, which loads the
\* counter, and KEY, which clears it
Repeated == {op \in 0..7 : DecodeNext(op) = "HANDLE-REPEAT"}

RepeatZeroRunsOnce ==
    (cobs.cmd \in Repeated /\ cobs.count = Zero32) =>
      /\ cobs.passes <= 1
      /\ ctrl.opcode = PDIOpcodes.IDLE <=> cobs.passes = 1

\* C11: register round trip.  For every register index r in 0..4 and byte
\* v: after an STCS addressed to r has stored its payload byte v and only
\* LDCS commands have followed, an LDCS addressed to r whose write phase
\* has just run has put exactly v on dataOut and has set done (unless
\* doneAck was high in that same tick), and the payload the interface
\* builds from dataOut is v with its even parity bit.
C11_RegisterRoundTrip ==
    ( /\ cobs.lastFsm = "HANDLE-WRITE"
      /\ ctrl.fsm = "UPDATE-STATE"
      /\ cobs.stored # <<>>
      /\ cobs.stored[1] = ctrl.args
      /\ ctrl.args \in 0..4 ) =>
        LET v == cobs.stored[2]
            ones == Cardinality({k \in 0..7 : Bit(v, k) = 1})
        IN /\ ctrl.opcode = PDIOpcodes.LDCS
           /\ ctrl.dataOut = v
           /\ cobs.acked = 0 => ctrl.done = 1
           /\ PdiResponse(ctrl.dataOut) = v + 256 * (ones % 2)

\* STCS has stored 255 in the last register and LDCS has read it back
C11_Witness ==
    /\ cobs.lastFsm = "HANDLE-WRITE"
    /\ ctrl.fsm = "UPDATE-STATE"
    /\ cobs.stored = <<4, 255>>
    /\ ctrl.args = 4
    /\ ctrl.dataOut = 255
    /\ ctrl.done = 1

\* C12: when the controller has accepted a byte whose bit 8 differs from
\* the XOR of its bits 0-7, PARITY-CHECK latches parityError and
\* DISPATCH-BYTE returns to IDLE with busy deasserted, so that DECODE-INSN,
\* HANDLE-READ and HANDLE-WRITE are not entered; in both ticks the opcode,
\* the argument field, the latched data byte and the register file stay as
\* they were, done changes only by doneAck, and readCount, writeCount and
\* the repeat counter stay as they were unless the instruction FSM is
\* still loading them for the command decoded before.
C12_ParityErrorAborts ==
    [][ LET ones == Cardinality({k \in 0..7 : Bit(drv.dataIn, k) = 1})
            bad == (ones % 2) # Bit(drv.dataIn, 8)
            kept == /\ ctrl'.opcode = ctrl.opcode
                    /\ ctrl'.args = ctrl.args
                    /\ ctrl'.data = ctrl.data
                    /\ ctrl'.pdiRegs = ctrl.pdiRegs
                    /\ ctrl'.dataOut = ctrl.dataOut
                    /\ ctrl'.done = (IF cobs'.acked = 1 THEN 0 ELSE ctrl.done)
                    /\ ctrl.insn = "IDLE" =>
                          /\ ctrl'.readCount = ctrl.readCount
                          /\ ctrl'.writeCount = ctrl.writeCount
                          /\ ctrl'.repCount = ctrl.repCount
        IN /\ (ctrl.fsm = "PARITY-CHECK" /\ bad) =>
                 /\ ctrl'.parityError = 1
                 /\ ctrl'.fsm = "DISPATCH-BYTE"
                 /\ kept
           /\ (ctrl.fsm = "DISPATCH-BYTE" /\ ctrl.parityError = 1) =>
                 /\ cobs.lastFsm = "PARITY-CHECK"
                 /\ bad
                 /\ ctrl'.fsm = "IDLE"
                 /\ ctrl'.busy = 0
                 /\ ctrl'.parityError = 1
                 /\ kept
      ]_vars

\* A byte of wrong parity has just been discarded in the middle of an STS
\* command, which still waits for a payload byte
C12_Witness ==
    /\ cobs.lastFsm = "DISPATCH-BYTE"
    /\ ctrl.fsm = "IDLE"
    /\ ctrl.parityError = 1
    /\ ctrl.busy = 0
    /\ drv.dataIn = BadFrame
    /\ ctrl.opcode = PDIOpcodes.STS
    /\ ctrl.readCount = 1
    /\ cobs.passes = 1

(***************************************************************************)
(* Properties of the composed system                                       *)
(***************************************************************************)
\* C13: after a request frame with a wrong parity bit has been sent (and
\* forwarded by the interface), the very next poll, the next PDI
\* Capture-DR, is answered with BREAK, however soon it follows the request
\* and whatever the relative speed of the two clocks.
C13_BadParityNextPollBreak ==
    (PortNeeds(port) = 1 /\ seen.bad) => JtagDataOut(iface, PortNeeds(port)) = PDI_BREAK_BYTE

\* A poll that follows a forwarded request of wrong parity late enough is
\* answered with BREAK
C13_Witness ==
    /\ PortNeeds(port) = 1
    /\ seen.bad
    /\ ctrl.parityError = 1
    /\ JtagDataOut(iface, PortNeeds(port)) = PDI_BREAK_BYTE

(***************************************************************************)
(* Properties of the PulseSynchroniser                                     *)
(***************************************************************************)
\* C14: with the output clock ticking at least once between any two
\* input ticks, every input cycle in which i is asserted, even every
\* cycle, produces exactly one output tick on which o is asserted: at every
\* moment the o pulses counted are at most the i pulses, the difference is
\* exactly the toggle edges still travelling through the synchroniser (so
\* no pulse is duplicated and each lasts one output tick), and every i
\* pulse is eventually followed by its o pulse.
C14_PulseExactlyOnce ==
    /\ [](/\ pulse.got <= pulse.sent
          /\ pulse.sent - pulse.got = PulseEdges(pulse.ps, pulse.i))
    /\ \A k \in 1..MaxPulses : (pulse.sent >= k) ~> (pulse.got >= k)

\* i has been asserted in three input cycles running: the first pulse is
\* on o and the two behind it are in the synchroniser
C14_Witness ==
    /\ PulseEdges(pulse.ps, pulse.i) = 3
    /\ PulseOut(pulse.ps) = 1
    /\ pulse.i = 1
    /\ pulse.sent >= 3

(***************************************************************************)
(* Properties of the two pulse paths of the composed system.               *)
(***************************************************************************)
\* C15: every request the interface forwards crosses into the core domain as
\* one nextReady pulse (the forwarded requests not yet announced are exactly
\* the toggle edges still inside the synchroniser), and the controller
\* observes that pulse: it finds pdiFSM in IDLE, the only state that looks at
\* nextReady.
C15_EveryRequestObserved ==
    /\ seen.inFlight = PulseEdges(iface.nextReadySync, NextReady(iface, PortHas(port)))
    /\ PdiNextReady(iface) = 1 => ctrl.fsm = "IDLE"

\* A forwarded LDCS frame is announced to a controller that is idle and not busy
C15_Witness ==
    /\ PdiNextReady(iface) = 1
    /\ PdiDataIn(iface) = Frame(PDIOpcodes.LDCS * 32)
    /\ ctrl.fsm = "IDLE"
    /\ ctrl.busy = 0
    /\ ctrl.opcode = PDIOpcodes.IDLE
    /\ seen.inFlight = 1

\* C16: a next-ready event that reaches the controller while its busy flag is
\* asserted changes nothing in it: over that core-clock tick pdiFSM, insnFSM,
\* opcode, arguments, counters, repeat counter, data byte, dataOut, done and
\* the register file become what they would have become without the event.
C16_BusyRequestIgnored ==
    [][(clk'.last = "sync" /\ PdiNextReady(iface) = 1 /\ ctrl.busy = 1)
         => ctrl' = CtrlStep(ctrl, 0, PdiDataIn(iface), PdiDoneAck(iface))]_vars

\* A next-ready event arrives while the controller is busy dispatching the
\* byte before, and is not looked at
C16_Witness ==
    /\ PdiNextReady(iface) = 1
    /\ ctrl.busy = 1
    /\ ctrl.fsm = "DISPATCH-BYTE"
    /\ ctrl.parityError = 0

\* C17: responseAck is raised exactly in the fetches answered with the response
\* payload, none by a fetch answered with BREAK, DELAY or EMPTY; every payload
\* fetch reaches the controller as one doneAck pulse of one tick (the payload
\* fetches not yet acknowledged are exactly the toggle edges still inside the
\* synchroniser); and the tick in which the controller sees doneAck leaves
\* done clear, whether or not a write completes in that tick.
C17_AckExactlyFromPayloadFetch ==
    /\ [](/\ ResponseAck(iface, PortNeeds(port)) = 1
               <=> (/\ PortNeeds(port) = 1
                    /\ JtagDataOut(iface, 1) = JtagResponse(iface)
                    /\ JtagDataOut(iface, 1) \notin {PDI_BREAK_BYTE, PDI_DELAY_BYTE, PDI_EMPTY_BYTE})
          /\ seen.acks = PulseEdges(iface.responseAckSync, ResponseAck(iface, PortNeeds(port)))
          /\ seen.acks < MaxInFlight)
    /\ [][(clk'.last = "sync" /\ PdiDoneAck(iface) = 1) => ctrl'.done = 0]_vars

\* The acknowledge of a payload fetch reaches the controller in the tick in
\* which the write phase of the next LDCS completes
C17_Witness ==
    /\ PdiDoneAck(iface) = 1
    /\ ctrl.done = 1
    /\ WriteComplete(ctrl)
    /\ seen.acks = 1

(***************************************************************************)
(* Properties of the response frame and of the sentinels                   *)
(***************************************************************************)
\* C18: whenever a fetch is answered with the response payload, bits 0-7 of
\* the frame are the controller's data-out byte and bit 8 is the XOR of those
\* eight bits, so the nine bits hold an even number of ones; this for every
\* byte 0..255, 0x04 giving 0x104 and 0x00 giving 0x000.  The controller's
\* parity check accepts that frame and rejects it with bit 8 inverted.
C18_PayloadIsByteWithEvenParity ==
    LET d == core.dataOut
        frame == JtagDataOut(iface, 1)
        ones(v, n) == Cardinality({k \in 0 .. n - 1 : Bit(v, k) = 1})
        checked(f) == CtrlStep([CtrlInit EXCEPT !.fsm = "PARITY-CHECK"], 0, f, 0).parityError
    IN  /\ (PortNeeds(port) = 1 /\ ResponseAck(iface, 1) = 1)
            => /\ frame % 256 = d
               /\ Bit(frame, DataWidth) = ones(d, DataWidth) % 2
               /\ ones(frame, DataWidth + 1) % 2 = 0
               /\ d = 4 => frame = 260
               /\ d = 0 => frame = 0
        /\ checked(PdiResponse(d)) = 0
        /\ checked((PdiResponse(d) + 256) % 512) = 1

\* The payload fetched is 0xff with parity bit 0
C18_Witness ==
    /\ PortNeeds(port) = 1
    /\ ResponseAck(iface, 1) = 1
    /\ core.dataOut = 255
    /\ JtagDataOut(iface, 1) = 255

\* C19: BREAK, DELAY and EMPTY are three different 9-bit codes, each with an
\* odd number of ones, so none of them is a frame whose bit 8 is the even
\* parity of its bits 0-7; hence the frame built from the controller's byte,
\* whatever byte it is, is no sentinel, and neither is any payload fetched.
C19_SentinelsAreNoPayload ==
    LET sentinels == {PDI_BREAK_BYTE, PDI_DELAY_BYTE, PDI_EMPTY_BYTE}
        d == core.dataOut
        ones(v, n) == Cardinality({k \in 0 .. n - 1 : Bit(v, k) = 1})
    IN  /\ Cardinality(sentinels) = 3
        /\ \A s \in sentinels : s < Pow2(DataWidth + 1) /\ ones(s, DataWidth + 1) % 2 = 1
        /\ d + Pow2(DataWidth) * (ones(d, DataWidth) % 2) \notin sentinels
        /\ PdiResponse(d) \notin sentinels
        /\ (PortNeeds(port) = 1 /\ ResponseAck(iface, 1) = 1) => JtagDataOut(iface, 1) \notin sentinels

\* The payload fetched is the frame of 0xbb, which differs from BREAK in bit 8 only
C19_Witness ==
    /\ PortNeeds(port) = 1
    /\ ResponseAck(iface, 1) = 1
    /\ core.dataOut = PDI_BREAK_BYTE % 256
    /\ JtagDataOut(iface, 1) = PDI_BREAK_BYTE - 256

(***************************************************************************)
(* Idle polls of the composed system                                       *)
(***************************************************************************)
\* C20: a poll answered EMPTY with no request pending, no response ready and
\* the controller idle changes nothing: from the fetch to the end of the
\* poll's scan (the cycle after Update-DR included) no next-ready and no
\* done-acknowledge event is produced and the controller stays as it was
\* (both state machines idle, no opcode, counters at zero, busy, done and
\* parityError clear), so the next poll finds the same.
C20_IdlePollChangesNothing ==
    seen.idlePoll
        => /\ NextReady(iface, PortHas(port)) = 0
           /\ PdiNextReady(iface) = 0
           /\ PdiDoneAck(iface) = 0
           /\ CtrlIdle(ctrl)

\* An idle poll has been answered EMPTY and its scan is about to pass Update-DR
C20_Witness ==
    /\ seen.idlePoll
    /\ port.phase = "scan"
    /\ port.n = ScanCycles
    /\ CtrlIdle(ctrl)
    /\ clk.last = "sync"

(***************************************************************************)
(* Properties of the data registers the instruction selects                *)
(***************************************************************************)
\* C21: with any instruction other than IDCODE and PDI in the instruction
\* register, a tick on which the data register shifts loads the bit on TDI
\* into the bypass register and puts the previous bypass bit on TDO; and with
\* such an instruction no fetch-response and no request pulse is raised.
C21_OtherInsnIsBypass ==
    [][tap.insn \notin {InsnIdCode, InsnPDI}
         => /\ (tap.state = "SHIFT-DR" /\ tap.shiftDR = 1)
                 => (tap'.bypass = HostTdi(tap) /\ tap'.tdo = tap.bypass)
            /\ ~TapHaveRequest(tap)
            /\ \A tms \in {0, 1} : ~TapFetchResponse(tap, tms)]_vars

\* A data register shift with an unassigned instruction, the bit on TDI
\* differing from the bypass register
C21_Witness ==
    /\ tap.insn \notin {InsnIdCode, InsnPDI, InsnBypass}
    /\ tap.state = "SHIFT-DR"
    /\ tap.shiftDR = 1
    /\ HostTdi(tap) # tap.bypass

\* C22: with BYPASS selected, a tick on which the data register shifts puts
\* on TDO the bit TDI carried one shift earlier (the bypass register takes
\* TDI, TDO takes the bypass register); and the first bit a BYPASS scan puts
\* on TDO is 0, whatever was shifted before.
C22_BypassDelaysOneBit ==
    /\ [][(tap.insn = InsnBypass /\ tap.state = "SHIFT-DR" /\ tap.shiftDR = 1)
            => (tap'.bypass = HostTdi(tap) /\ tap'.tdo = tap.bypass)]_vars
    /\ []((obs.scan.kind = "DR" /\ obs.scan.insn = InsnBypass /\ obs.scan.len >= 1)
            => Bit32(obs.scan.out, 0) = 0)

\* The first BYPASS scan after reset has shifted 1,0,1 in and read 0,1,0 back
C22_Witness ==
    /\ obs.scan.kind = "DR"
    /\ obs.scan.insn = InsnBypass
    /\ obs.scan.len = 3
    /\ host.word = W32(5)
    /\ obs.scan.out = W32(2)

(***************************************************************************)
(* Recovery and reset of the controller                                    *)
(***************************************************************************)
\* C23: the controller has no state it cannot leave: with the core clock
\* ticking, whenever pdiFSM is not in IDLE it is in IDLE again later, and
\* whenever busy is asserted it is deasserted later, whatever opcode and
\* whatever stage of a command the byte accepted belonged to.
C23_AlwaysBackToIdle ==
    /\ (ctrl.fsm # "IDLE") ~> (ctrl.fsm = "IDLE")
    /\ (ctrl.busy = 1) ~> (ctrl.busy = 0)

\* The payload byte of an STCS has been handled: pdiFSM is back in IDLE with
\* no opcode and busy deasserted
C23_Witness ==
    /\ cobs.lastFsm = "UPDATE-STATE"
    /\ cobs.cmd = PDIOpcodes.STCS
    /\ ctrl.fsm = "IDLE"
    /\ ctrl.opcode = PDIOpcodes.IDLE
    /\ ctrl.busy = 0

\* C24: a controller reset is available in every reachable state (other than
\* RESET itself): some value of the controller's inputs (nextReady, dataIn,
\* doneAck) makes the next tick put pdiFSM into RESET; and the tick after
\* RESET leaves both FSMs in IDLE, the opcode at the IDLE sentinel, the
\* three counters at 0 and busy and parityError deasserted.
C24_ResetAvailable ==
    /\ [](ctrl.fsm # "RESET"
            => \E nextReady \in {0, 1}, doneAck \in {0, 1} :
                 \E dataIn \in 0 .. Pow2(DataWidth + 1) - 1 :
                   CtrlStep(ctrl, nextReady, dataIn, doneAck).fsm = "RESET")
    /\ [][ctrl.fsm = "RESET" => (CtrlIdle(ctrl') /\ ctrl'.repCount = Zero32)]_vars

\* The one RESET there is: the tick after power-up has left the controller
\* idle
C24_Witness ==
    /\ cobs.lastFsm = "RESET"
    /\ CtrlIdle(ctrl)
    /\ ctrl.repCount = Zero32

(***************************************************************************)
(* The repeat counter at decode                                            *)
(***************************************************************************)
\* C25 (as the code has it): of the commands decoded, only KEY clears the
\* repeat counter (as does a counter update with the opcode at the IDLE
\* sentinel); decoding LDS, LD, STS, ST, LDCS, STCS or REPEAT leaves the
\* counter as it was, so that the command runs under the count a REPEAT
\* loaded before it; and the RESET state clears it.
C25_OnlyKeyClearsRepCount ==
    /\ [][ctrl.insn = "DECODE"
            => ctrl'.repCount =
                 IF ctrl.opcode \in {PDIOpcodes.KEY, PDIOpcodes.IDLE}
                 THEN Zero32 ELSE ctrl.repCount]_vars
    /\ [][ctrl.fsm = "RESET" => ctrl'.repCount = Zero32]_vars

\* C25 as the specification states it: the repeat counter is 0 after the
\* decode of every command other than REPEAT, and after RESET
C25_EveryCommandClearsRepCount ==
    /\ [][(ctrl.insn = "DECODE" /\ ctrl.opcode \in (0 .. 7) \ {PDIOpcodes.REPEAT})
            => ctrl'.repCount = Zero32]_vars
    /\ [][ctrl.fsm = "RESET" => ctrl'.repCount = Zero32]_vars

\* STS has just been decoded and the count of 2 a REPEAT loaded before it is
\* still in the repeat counter
C25_Witness ==
    /\ cobs.lastInsn = "DECODE"
    /\ ctrl.opcode = PDIOpcodes.STS
    /\ cobs.count = <<2, 0, 0, 0>>
    /\ ctrl.repCount = <<2, 0, 0, 0>>

(***************************************************************************)
(* Shifting                                                                *)
(***************************************************************************)
\* C26: on every TCK tick on which the TAP is in Shift-DR the data register
\* the instruction selects shifts by one bit, TDI entering at the top and
\* the old lowest bit going to TDO, and on every tick in Shift-IR the IR
\* shift register does, however the Shift state was entered (from Capture or
\* from Exit2 after a Pause); on a tick in any other state nothing shifts.
C26_ShiftOnEveryShiftTick ==
    /\ [][(tap.state = "SHIFT-DR" /\ tap.insn = InsnIdCode)
            => /\ tap'.idCode = ShiftIn32(tap.idCode, HostTdi(tap))
               /\ tap'.tdo = Bit32(tap.idCode, 0)]_vars
    /\ [][(tap.state = "SHIFT-DR" /\ tap.insn = InsnPDI)
            => /\ tap'.pdiData = ShiftIn(tap.pdiData, 9, HostTdi(tap))
               /\ tap'.tdo = Bit(tap.pdiData, 0)]_vars
    /\ [][(tap.state = "SHIFT-DR" /\ tap.insn = InsnBypass)
            => /\ tap'.bypass = HostTdi(tap)
               /\ tap'.tdo = tap.bypass]_vars
    /\ [][tap.state = "SHIFT-IR"
            => /\ tap'.insnShiftReg = ShiftIn(tap.insnShiftReg, 4, HostTdi(tap))
               /\ tap'.tdo = Bit(tap.insnShiftReg, 0)]_vars
    /\ [](~InShift(tap.state) => (tap.shiftDR = 0 /\ tap.shiftIR = 0))

\* An IR scan of four bits without a Pause has shifted the host's 0x7 into
\* the IR shift register and the captured IDCODE instruction out
C26_Witness ==
    /\ obs.scan.kind = "IR" /\ obs.scan.len = 4 /\ ~obs.scan.paused
    /\ obs.scan.insn = InsnIdCode
    /\ host.word = W32(7)
    /\ tap.insnShiftReg = 7
    /\ obs.scan.out = W32(InsnIdCode)

(***************************************************************************)
(* Byte dispatch                                                           *)
(***************************************************************************)
\* C27: a byte accepted without parity error is dispatched to DECODE-INSN
\* exactly when the opcode is the IDLE sentinel, otherwise to HANDLE-READ
\* exactly when readCount > 0, otherwise to HANDLE-WRITE, and its 8 data
\* bits are latched; DECODE-INSN sets the opcode to bits 7..5 and the
\* argument field to bits 3..0 of the latched byte, whatever its bit 4, and
\* returns to IDLE.  So DECODE-INSN runs only with no command in progress,
\* and HANDLE-READ and HANDLE-WRITE only with one.
C27_ByteDispatch ==
    /\ [][(ctrl.fsm = "DISPATCH-BYTE" /\ ctrl.parityError = 0)
            => /\ ctrl'.fsm = "DECODE-INSN" <=> ctrl.opcode = PDIOpcodes.IDLE
               /\ ctrl.opcode # PDIOpcodes.IDLE
                    => /\ ctrl'.fsm = "HANDLE-READ" <=> ctrl.readCount > 0
                       /\ ctrl'.fsm = "HANDLE-WRITE" <=> ctrl.readCount = 0
               /\ ctrl'.data = drv.dataIn % 256]_vars
    /\ [][ctrl.fsm = "DECODE-INSN"
            => /\ ctrl'.opcode = (ctrl.data \div 32) % 8
               /\ ctrl'.args = ctrl.data % 16
               /\ ctrl'.fsm = "IDLE"]_vars
    /\ [](ctrl.fsm = "DECODE-INSN" => ctrl.opcode = PDIOpcodes.IDLE)
    /\ [](ctrl.fsm \in {"HANDLE-READ", "HANDLE-WRITE"} => ctrl.opcode \in 0 .. 7)

\* The byte 0xd3 has just been decoded as STCS of register 3, its bit 4
\* dropped
C27_Witness ==
    /\ cobs.lastFsm = "DECODE-INSN"
    /\ ctrl.data = PDIOpcodes.STCS * 32 + 16 + 3
    /\ ctrl.opcode = PDIOpcodes.STCS
    /\ ctrl.args = 3
    /\ ctrl.fsm = "IDLE"

(***************************************************************************)
(* Properties of an exchange over the composed system                      *)
(***************************************************************************)
\* C28: once the interface has forwarded a request, every poll made before
\* it has seen a ready response or the busy shadow fall is answered with
\* BREAK if the parity error shadow is set and with DELAY otherwise, never
\* with EMPTY or a payload; a poll made before any frame has been sent is
\* answered with EMPTY; and in the exchange that stores 0x04 in r0 and
\* reads it with LDCS, a payload given to the third poll of the LDCS is
\* 0x104, the register's byte with its parity bit.
C28_WaitingPollsGetDelay ==
    PortNeeds(port) = 1 =>
      /\ host.waiting =>
           JtagDataOut(iface, 1) =
             (IF ParityError(iface) = 1 THEN PDI_BREAK_BYTE ELSE PDI_DELAY_BYTE)
      /\ host.pc = 0 => JtagDataOut(iface, 1) = PDI_EMPTY_BYTE
      /\ (Len(host.frames) = 4 /\ host.pc = 4 /\ ResponseAck(iface, 1) = 1)
           => JtagDataOut(iface, 1) = PdiResponse(4)

\* The LDCS of the exchange that stored 0x04 in r0, polled three times in a
\* row: the poll that sent the LDCS frame was answered EMPTY, the next
\* DELAY, and the third with 0x104
C28_Witness ==
    /\ Len(host.frames) = 4
    /\ host.frames[3] = Frame(PDIOpcodes.LDCS * 32)
    /\ host.pc = 4
    /\ port.phase = "scan" /\ port.n = 1
    /\ host.answers = <<PDI_EMPTY_BYTE, PDI_DELAY_BYTE, PdiResponse(4)>>

\* C29: each response the controller produces is given to at most one poll:
\* a poll is answered with the payload, raising responseAck, only if no poll
\* has been answered with the payload since the controller last set done.
C29_ResponseReturnedOnce ==
    ResponseAck(iface, PortNeeds(port)) = 1 => ~host.served

\* The first poll answered with the payload of the LDCS
C29_Witness ==
    /\ ResponseAck(iface, PortNeeds(port)) = 1
    /\ ~host.served
    /\ JtagDataOut(iface, 1) = PdiResponse(4)
    /\ ctrl.done = 1

\* C30: in the composed system a REPEAT command completes: whenever the
\* REPEAT opcode has been decoded and insnFSM waits for the count byte, the
\* controller's busy flag is deasserted later while it still waits, and a
\* count byte the host then sends (each poll sends it again) is forwarded
\* and consumed, so that the repeat counter is loaded later.
C30_RepeatCompletes ==
    /\ (ctrl.opcode = PDIOpcodes.REPEAT /\ ctrl.insn = "CAPTURE-REPEAT")
         ~> (ctrl.insn = "CAPTURE-REPEAT" /\ ctrl.busy = 0)
    /\ (ctrl.opcode = PDIOpcodes.REPEAT /\ ctrl.insn = "CAPTURE-REPEAT" /\ PortHas(port) = 1)
         ~> (cobs.lastInsn = "UPDATE-REPEAT")

\* The REPEAT opcode has been decoded, insnFSM waits for the count byte with
\* busy still asserted, and the host's poll sends the count byte
C30_Witness ==
    /\ ctrl.opcode = PDIOpcodes.REPEAT
    /\ ctrl.insn = "CAPTURE-REPEAT"
    /\ ctrl.fsm = "IDLE"
    /\ ctrl.busy = 1
    /\ PortHas(port) = 1
    /\ port.dataIn = Frame(1)

(***************************************************************************)
(* The byte counters and the register file                                 *)
(***************************************************************************)
\* C31: readCount and writeCount never wrap.  HANDLE-READ runs only with
\* readCount > 0 and takes exactly one off it; a write that completes in
\* HANDLE-WRITE finds writeCount > 0 and takes exactly one off it; on every
\* other tick the counters change only when insnFSM's DECODE loads them (or
\* RESET clears them); and both are within 0..8 in every reachable state.
\* So a counter is back at zero exactly when as many bytes have been handled
\* as DECODE loaded.
C31_CountersNeverWrap ==
    /\ [](ctrl.readCount \in 0 .. 8 /\ ctrl.writeCount \in 0 .. 8)
    /\ [][ctrl.fsm = "HANDLE-READ"
            => /\ ctrl.readCount > 0
               /\ ctrl'.readCount = ctrl.readCount - 1
               /\ ctrl'.writeCount = ctrl.writeCount]_vars
    /\ [][(ctrl.fsm = "HANDLE-WRITE" /\ ctrl'.fsm # "HANDLE-WRITE")
            => /\ ctrl.writeCount > 0
               /\ ctrl'.writeCount = ctrl.writeCount - 1
               /\ ctrl'.readCount = ctrl.readCount]_vars
    /\ [][(ctrl.fsm \notin {"HANDLE-READ", "HANDLE-WRITE", "RESET"} /\ ctrl.insn # "DECODE")
            => /\ ctrl'.readCount = ctrl.readCount
               /\ ctrl'.writeCount = ctrl.writeCount]_vars
    /\ [][(ctrl.fsm = "HANDLE-WRITE" /\ ctrl'.fsm = "HANDLE-WRITE")
            => /\ ctrl'.readCount = ctrl.readCount
               /\ ctrl'.writeCount = ctrl.writeCount]_vars

\* The eighth and last byte of a KEY has just been handled: readCount has
\* gone from 1 to 0
C31_Witness ==
    /\ cobs.lastFsm = "HANDLE-READ"
    /\ ctrl.opcode = PDIOpcodes.KEY
    /\ ctrl.readCount = 0
    /\ ctrl.writeCount = 0
    /\ ctrl.fsm = "UPDATE-STATE"

\* C32: the register file changes only in the read phase of an STCS command.
\* On the clock edge in which pdiFSM is in HANDLE-READ with opcode STCS, one
\* register takes the received data byte and the other four keep their
\* values; for an argument field of 0..4 that register is the one the field
\* numbers.  On every other clock edge (any other opcode, any other state of
\* pdiFSM, a byte of wrong parity, a done flag acknowledged or not) all five
\* registers keep their values, and a byte of wrong parity never reaches
\* HANDLE-READ.
C32_RegistersChangeOnlyOnStcsRead ==
    /\ [](ctrl.fsm = "HANDLE-READ" => ctrl.parityError = 0)
    /\ [][IF ctrl.opcode = PDIOpcodes.STCS /\ ctrl.fsm = "HANDLE-READ"
          THEN /\ \E i \in 1 .. 5 :
                    \A j \in 1 .. 5 :
                      ctrl'.pdiRegs[j] = IF j = i THEN ctrl.data ELSE ctrl.pdiRegs[j]
               /\ ctrl.args <= 4 =>
                    \A j \in 1 .. 5 :
                      ctrl'.pdiRegs[j] = IF j = ctrl.args + 1 THEN ctrl.data ELSE ctrl.pdiRegs[j]
          ELSE ctrl'.pdiRegs = ctrl.pdiRegs]_vars

C32_Witness ==
    /\ cobs.lastFsm = "HANDLE-READ"
    /\ ctrl.opcode = PDIOpcodes.STCS
    /\ ctrl.args = 3
    /\ cobs.stored = <<3, 1>>
    /\ ctrl.pdiRegs = <<0, 0, 0, 1, 0>>
    /\ ctrl.fsm = "UPDATE-STATE"

====
